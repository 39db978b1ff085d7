-------------------------------- MODULE MCBus --------------------------------
EXTENDS Bus

\* 10 ms and a second of two units.
SmallPeriods == <<1, 2>>
=============================================================================
