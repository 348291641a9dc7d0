CONSTANTS
  Values = {a, b, big}
  Large = {big}
  MaxFaults = 3
  Current = 2
  Brightnesses = {255, 256}
  Periods = {0, 99, 60000}
  MaxSaves = 3
  MaxSpoilt = 1
  IconIds = {icon}
  Sizes = {1, 4}
  Budget = 4
  MaxIcons = 1
  FlashLimit = 3
  ScriptIds = {script1, script2}
  ScriptSize = 2
  MaxScripts = 2
  Rooms = {1}
SYMMETRY Scripts
SPECIFICATION MCSpec
INVARIANTS
  EveryCopyServes
  WhatWasAskedIsInFlash
  WholeAndKept
PROPERTIES
  StartingCostsNothing
