------------------------------ MODULE PhoneOtp ------------------------------
(***************************************************************************)
(* AuthController: the one-time codes of one phone number, kept in a map   *)
(* of the API process.  Neither handler awaits anything between reading    *)
(* and writing the record, so each is one step.  Time is counted in half   *)
(* minutes.  Sending the SMS never fails the request.                      *)
(***************************************************************************)
EXTENDS Integers, Sequences

CONSTANTS
    Cooldown,     \* least time between two codes
    Validity,     \* time a code is good for
    MaxTries,     \* attempts per code
    MaxTime,      \* bound: time
    MaxCodes      \* bound: codes sent

ASSUME OtpAssumption ==
    /\ Cooldown \in Nat /\ Validity \in Nat /\ Cooldown <= Validity
    /\ MaxTries \in Nat \ {0}
    /\ MaxTime \in Nat /\ MaxCodes \in Nat

VARIABLES
    now,
    rec,    \* the OtpRecord of the number, or NoRecord; code is its index in codes
    codes   \* every code sent: when, how often it was tried, when it was verified (history)

vars == <<now, rec, codes>>

NoRecord == [code |-> 0, expiresAt |-> 0, attempts |-> 0, lastSentAt |-> 0]

\* Not verified.
Never == -1

TypeOK ==
    /\ now \in 0 .. MaxTime
    /\ rec \in [code : 0 .. MaxCodes, expiresAt : 0 .. MaxTime + Validity,
                attempts : 0 .. MaxTries, lastSentAt : 0 .. MaxTime]
    /\ Len(codes) <= MaxCodes
    /\ \A i \in DOMAIN codes :
          codes[i] \in [sentAt : 0 .. MaxTime, tries : Nat, verifiedAt : {Never} \cup 0 .. MaxTime]

Init ==
    /\ now = 0
    /\ rec = NoRecord
    /\ codes = <<>>

Tick ==
    /\ now < MaxTime
    /\ now' = now + 1
    /\ UNCHANGED <<rec, codes>>

\* Too many attempts on a code that is still good.
Blocked == rec.expiresAt > now /\ rec.attempts >= MaxTries

\* POST /auth/phone/send that is not turned away.
SendPhoneOtp ==
    /\ Len(codes) < MaxCodes
    /\ rec # NoRecord => now - rec.lastSentAt >= Cooldown /\ ~Blocked
    /\ codes' = Append(codes, [sentAt |-> now, tries |-> 0, verifiedAt |-> Never])
    /\ rec' = [code |-> Len(codes'), expiresAt |-> now + Validity, attempts |-> 0,
               lastSentAt |-> now]
    /\ UNCHANGED now

\* Mutation of Tries: a right code is compared whatever the attempts were.
TriesOn(c) == c = rec.code \/ rec.attempts < MaxTries

\* Mutation of Tries: off by one.
TriesOnceMore(c) == rec.attempts <= MaxTries

\* Whether an attempt gets to the comparison.
Tries(c) == rec.attempts < MaxTries

\* POST /auth/phone/verify with code c; 0 stands for a code that was never sent.
VerifyPhoneOtp(c) ==
    /\ rec # NoRecord
    /\ \/ /\ now > rec.expiresAt
          /\ rec' = NoRecord
          /\ UNCHANGED codes
       \/ /\ now <= rec.expiresAt
          /\ Tries(c)
          /\ rec' = IF c = rec.code THEN NoRecord ELSE [rec EXCEPT !.attempts = @ + 1]
          /\ codes' = [codes EXCEPT ![rec.code].tries = @ + 1,
                                    ![rec.code].verifiedAt = IF c = rec.code THEN now ELSE @]
    /\ UNCHANGED now

\* Mutation of Sweep: the record goes when its cooldown is over.
SweepEarly ==
    /\ rec # NoRecord
    /\ rec.lastSentAt < now
    /\ rec' = NoRecord
    /\ UNCHANGED <<now, codes>>

\* The timer that drops expired records.
Sweep ==
    /\ rec # NoRecord
    /\ rec.expiresAt < now
    /\ rec' = NoRecord
    /\ UNCHANGED <<now, codes>>

Next ==
    \/ Tick \/ SendPhoneOtp \/ Sweep
    \/ \E c \in 0 .. Len(codes) : VerifyPhoneOtp(c)

Spec == Init /\ [][Next]_vars

-----------------------------------------------------------------------------
(* Properties.                                                             *)

\* A code is compared at most MaxTries times, and verified only while it is good
\* and no newer one has been sent.
CodeIsLimited ==
    \A i \in DOMAIN codes :
        /\ codes[i].tries <= MaxTries
        /\ codes[i].verifiedAt # Never =>
              /\ codes[i].verifiedAt <= codes[i].sentAt + Validity
              /\ i < Len(codes) => codes[i].verifiedAt <= codes[i + 1].sentAt

\* A code that was not verified is followed by another after the cooldown at the
\* earliest, and once its attempts are used up only after it has expired, whichever
\* of the handlers and the timer dropped its record.
SendsSpaced ==
    \A i \in 1 .. Len(codes) - 1 :
        codes[i].verifiedAt = Never =>
            codes[i + 1].sentAt - codes[i].sentAt
                >= IF codes[i].tries = MaxTries THEN Validity ELSE Cooldown

=============================================================================
