SPECIFICATION FramingSpec
CONSTANTS
  Tasks = {t1, t2}
  MaxEvents = 3
INVARIANT FramingTypeOK
PROPERTIES
  ImplementsChannel
  EventsAreHandled
