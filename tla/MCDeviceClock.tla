--------------------------- MODULE MCDeviceClock ---------------------------
(* A year of two months, with three and two days (three in a leap year), days of *)
(* two hours, and requests with fields in, at and past the end of their ranges.  *)
EXTENDS DeviceClock

MCMonthLength == <<3, 2>>
=============================================================================
