SPECIFICATION FairSpec
CONSTANTS
  CLK_COUNT_1BYTE = 2
  CS_HIGH_CYCLES = 2
  SPI_ADR_BYTES = 1
  FLASH_IDLE = 1
  TB_PERIOD = 9
  Lines = {0, 2}
  LineWords = 2
  RomWords = {1, 4}
  FLASH_OFFSET <- Before
  InFlight = 1
PROPERTIES ReadsAsRom RequestsAnswered
