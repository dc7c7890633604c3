SPECIFICATION Spec
CONSTANTS
  Declarations <- MCDeclarations
  Numbers <- MCNumbers
  Unit = 4096
  Second = 15
  Significand = 32
  Quanta = {1, 2, 4, 8, 16, 32, 64, 128, 256, 512, 1024, 2048, 4096, 8192, 16384, 32768, 65536, 131072, 262144, 524288}
  MaxInt = 127
  MaxKeys = 2
CHECK_DEADLOCK FALSE
INVARIANTS GettersSeeTheirType OverridesKeepBounds ViewCanBeWrittenBack
