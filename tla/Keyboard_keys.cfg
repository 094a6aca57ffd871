CONSTANTS
  KEYBUFSIZE = 3
  Keys = {"leftctrl", "rightctrl"}
  Modifiers = {"leftctrl"}
  RepeatPause = 1
  RepeatRate = 1
  Commands = {"leds"}
SPECIFICATION FairSpec
INVARIANTS NothingStuck FlagsFollowKeys
PROPERTIES CodesMoveOn
