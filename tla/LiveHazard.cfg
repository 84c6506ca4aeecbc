SPECIFICATION LiveSpec
CONSTANTS
  NoFrame = NoFrame
  MaxFrames = 2
  MaxSwitches = 1
  Audiences = {{"rgb"}}
INVARIANT HazardIsOfItsClip
CHECK_DEADLOCK FALSE
