\* Valid and invalid line settings in any order, mixed with the other settings.
CONSTANTS
  Input <- Requests
  None = None
  ULong <- ULongs
  MaxULong = 2147483647
SPECIFICATION SettingsSpec
INVARIANTS TypeOK LineRoundTrip LineSettable
PROPERTY Answers
