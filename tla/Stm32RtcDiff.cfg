\* Three years around a leap year, every month, days at the start, the
\* end of February and the end of long months, times at midnight and late
\* in the day, and the subsecond counter at both ends (PREDIV_S = 255, the
\* value for a 32.768 kHz LSE with PREDIV_A = 127).
CONSTANTS
  Years = {2023, 2024, 2025}
  MDays = {1, 28, 29, 31}
  Hours = {0, 23}
  Minutes = {0, 59}
  Seconds = {0, 59}
  SsrValues = {0, 255}
  PredivS = 255
SPECIFICATION Spec
INVARIANT DiffIsElapsed
