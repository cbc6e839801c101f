----------------------------- MODULE MCPhoneOtp -----------------------------
(* Instance of PhoneOtp for TLC with the code's limits, in half minutes.   *)
EXTENDS PhoneOtp

OneMinute == 2
ThreeMinutes == 6

=============================================================================
