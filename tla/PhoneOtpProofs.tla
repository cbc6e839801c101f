--------------------------- MODULE PhoneOtpProofs ---------------------------
(***************************************************************************)
(* Proofs about PhoneOtp, for every cooldown, validity and number of tries *)
(* and any number of codes: a code is limited, and sends are spaced.       *)
(***************************************************************************)
EXTENDS PhoneOtp, SequenceTheorems, TLAPS

Code == [sentAt : 0 .. MaxTime, tries : Nat, verifiedAt : {Never} \cup 0 .. MaxTime]

\* The types of the variables.
Types ==
    /\ now \in 0 .. MaxTime
    /\ rec \in [code : 0 .. MaxCodes, expiresAt : 0 .. MaxTime + Validity,
                attempts : 0 .. MaxTries, lastSentAt : 0 .. MaxTime]
    /\ codes \in Seq(Code) /\ Len(codes) <= MaxCodes

\* A record is that of the code sent last, which has not been verified, and agrees
\* with what happened to it.
RecordIsLast ==
    rec # NoRecord =>
        LET last == codes[Len(codes)] IN
        /\ Len(codes) > 0
        /\ last.verifiedAt = Never
        /\ rec.code = Len(codes)
        /\ rec.expiresAt = last.sentAt + Validity
        /\ rec.attempts = last.tries
        /\ rec.lastSentAt = last.sentAt

\* Without a record the code sent last has been verified or has expired.
DroppedIsOver ==
    rec = NoRecord /\ Len(codes) > 0 =>
        \/ codes[Len(codes)].verifiedAt # Never
        \/ now > codes[Len(codes)].sentAt + Validity

\* What happened to the codes is not in the future.
NothingAhead ==
    \A i \in DOMAIN codes : codes[i].sentAt <= now /\ codes[i].verifiedAt <= now

\* The inductive invariant.
OtpInv ==
    Types /\ RecordIsLast /\ DroppedIsOver /\ NothingAhead /\ CodeIsLimited /\ SendsSpaced

-----------------------------------------------------------------------------

\* The elements of codes, and what their fields are.
LEMMA CodeFields ==
    ASSUME Types
    PROVE  \A i \in DOMAIN codes :
              /\ codes[i] \in Code
              /\ codes[i].sentAt \in 0 .. MaxTime /\ codes[i].sentAt \in Int
              /\ codes[i].verifiedAt \in Int /\ codes[i].tries \in Nat
<1> TAKE i \in DOMAIN codes
<1>1. codes[i] \in Code
  BY DEF Types
<1> QED
  BY <1>1, OtpAssumption DEF Code, Never

\* Two fields of a code are updated at once.
LEMMA UpdatedCode ==
    ASSUME NEW k \in Code, NEW t \in Nat, NEW v \in {Never} \cup 0 .. MaxTime
    PROVE  [[k EXCEPT !.tries = t] EXCEPT !.verifiedAt = v]
               = [sentAt |-> k.sentAt, tries |-> t, verifiedAt |-> v]
<1> DEFINE u == [[k EXCEPT !.tries = t] EXCEPT !.verifiedAt = v]
<1>1. u \in Code /\ u.sentAt = k.sentAt /\ u.tries = t /\ u.verifiedAt = v
  BY DEF Code
<1> HIDE DEF u
<1>2. u = [sentAt |-> k.sentAt, tries |-> t, verifiedAt |-> v]
  BY <1>1 DEF Code
<1> QED
  BY <1>2 DEF u

\* Nothing has been sent.
LEMMA InitOtp == Init => OtpInv
<1> SUFFICES ASSUME Init PROVE OtpInv
  OBVIOUS
<1>1. Len(codes) = 0 /\ DOMAIN codes = {} /\ codes \in Seq(Code)
  BY DEF Init
<1>2. Types
  BY <1>1, OtpAssumption DEF Init, Types, NoRecord
<1>3. RecordIsLast /\ DroppedIsOver
  BY <1>1 DEF Init, RecordIsLast, DroppedIsOver
<1>4. NothingAhead /\ CodeIsLimited /\ SendsSpaced
  BY <1>1 DEF NothingAhead, CodeIsLimited, SendsSpaced
<1> QED
  BY <1>2, <1>3, <1>4 DEF OtpInv

\* The invariant gives the types PhoneOtp states.
LEMMA OtpTypes == OtpInv => TypeOK
BY CodeFields DEF OtpInv, Types, TypeOK, Code

\* Only time passes.
LEMMA TickOtp == OtpInv /\ Tick => OtpInv'
<1> SUFFICES ASSUME OtpInv, Tick PROVE OtpInv'
  OBVIOUS
<1>1. /\ now \in Int /\ now' = now + 1 /\ now' \in 0 .. MaxTime
      /\ codes' = codes /\ rec' = rec
  BY OtpAssumption DEF OtpInv, Types, Tick
<1>2. \A i \in DOMAIN codes : codes[i].sentAt \in Int /\ codes[i].verifiedAt \in Int
  BY CodeFields DEF OtpInv
<1>3. Types'
  BY <1>1 DEF OtpInv, Types
<1>4. RecordIsLast'
  BY <1>1 DEF OtpInv, RecordIsLast, NoRecord
<1>5. DroppedIsOver'
  BY <1>1, <1>2, OtpAssumption DEF OtpInv, DroppedIsOver, Types, NoRecord, Never
<1>6. NothingAhead'
  BY <1>1, <1>2 DEF OtpInv, NothingAhead
<1>7. CodeIsLimited' /\ SendsSpaced'
  BY <1>1 DEF OtpInv, CodeIsLimited, SendsSpaced, Never
<1> QED
  BY <1>3, <1>4, <1>5, <1>6, <1>7 DEF OtpInv

\* A new code: what it follows is over, or has waited as long as it must.
LEMMA SendOtp == OtpInv /\ SendPhoneOtp => OtpInv'
<1> SUFFICES ASSUME OtpInv, SendPhoneOtp PROVE OtpInv'
  OBVIOUS
<1> DEFINE n == Len(codes)
           new == [sentAt |-> now, tries |-> 0, verifiedAt |-> Never]
<1>1. /\ now \in Nat /\ now \in 0 .. MaxTime /\ now' = now
      /\ n \in Nat /\ n < MaxCodes /\ codes \in Seq(Code)
  BY OtpAssumption DEF OtpInv, Types, SendPhoneOtp
<1>2. new \in Code
  BY <1>1 DEF Code
<1>3. /\ codes' \in Seq(Code) /\ Len(codes') = n + 1 /\ codes'[n + 1] = new
      /\ \A i \in 1 .. n : codes'[i] = codes[i]
  BY <1>1, <1>2, AppendProperties DEF SendPhoneOtp
<1>4. DOMAIN codes = 1 .. n /\ DOMAIN codes' = 1 .. n + 1
  BY <1>1, <1>3
<1>5. rec' = [code |-> n + 1, expiresAt |-> now + Validity, attempts |-> 0, lastSentAt |-> now]
  BY <1>3 DEF SendPhoneOtp
<1>6. \A i \in 1 .. n : /\ codes[i].sentAt \in Int /\ codes[i].verifiedAt \in Int
                        /\ codes[i].tries \in Nat
  BY <1>4, CodeFields DEF OtpInv
<1> HIDE DEF n, new
<1>7. new.sentAt = now /\ new.tries = 0 /\ new.verifiedAt = Never
  BY DEF new
<1>8. Types'
  BY <1>1, <1>3, <1>5, OtpAssumption DEF Types
<1>9. RecordIsLast'
  BY <1>1, <1>3, <1>5, <1>7 DEF RecordIsLast
<1>10. DroppedIsOver'
  <2>1. rec'.code # NoRecord.code
    BY <1>1, <1>5 DEF NoRecord
  <2> QED
    BY <2>1 DEF DroppedIsOver, NoRecord
<1>11. NothingAhead'
  <2> SUFFICES ASSUME NEW i \in 1 .. n + 1
               PROVE codes'[i].sentAt <= now /\ codes'[i].verifiedAt <= now
    BY <1>1, <1>4 DEF NothingAhead
  <2>1. CASE i = n + 1
    BY <2>1, <1>1, <1>3, <1>7 DEF Never
  <2>2. CASE i \in 1 .. n
    BY <2>2, <1>3, <1>4 DEF OtpInv, NothingAhead
  <2> QED
    BY <2>1, <2>2, <1>1
<1>12. CodeIsLimited'
  <2> SUFFICES ASSUME NEW i \in 1 .. n + 1
               PROVE /\ codes'[i].tries <= MaxTries
                     /\ codes'[i].verifiedAt # Never =>
                          /\ codes'[i].verifiedAt <= codes'[i].sentAt + Validity
                          /\ i < n + 1 => codes'[i].verifiedAt <= codes'[i + 1].sentAt
    BY <1>3, <1>4 DEF CodeIsLimited, Never
  <2>1. CASE i = n + 1
    BY <2>1, <1>1, <1>3, <1>7, OtpAssumption
  <2>2. CASE i = n
    <3>1. codes'[i] = codes[i] /\ codes'[i + 1].sentAt = now
      BY <2>2, <1>1, <1>3, <1>7
    <3>2. codes[i].verifiedAt <= now
      BY <2>2, <1>1, <1>4 DEF OtpInv, NothingAhead
    <3> QED
      BY <3>1, <3>2, <2>2, <1>1, <1>4 DEF OtpInv, CodeIsLimited
  <2>3. CASE i \in 1 .. n /\ i < n
    <3>1. codes'[i] = codes[i] /\ codes'[i + 1] = codes[i + 1]
      BY <2>3, <1>1, <1>3
    <3> QED
      BY <3>1, <2>3, <1>4 DEF OtpInv, CodeIsLimited, n
  <2> QED
    BY <2>1, <2>2, <2>3, <1>1
<1>13. SendsSpaced'
  <2> SUFFICES ASSUME NEW i \in 1 .. n, codes'[i].verifiedAt = Never
               PROVE codes'[i + 1].sentAt - codes'[i].sentAt
                         >= IF codes'[i].tries = MaxTries THEN Validity ELSE Cooldown
    BY <1>1, <1>3 DEF SendsSpaced, Never
  <2>1. CASE i < n
    <3>1. codes'[i] = codes[i] /\ codes'[i + 1] = codes[i + 1]
      BY <2>1, <1>1, <1>3
    <3> QED
      BY <3>1, <2>1, <1>1 DEF OtpInv, SendsSpaced, n
  <2>2. CASE i = n
    <3>1. codes'[i] = codes[n] /\ codes'[i + 1].sentAt = now /\ codes[n].verifiedAt = Never
      BY <2>2, <1>1, <1>3, <1>7
    <3>2. codes[n].sentAt \in Int /\ codes[n].tries \in Nat /\ n > 0
      BY <2>2, <1>1, <1>6
    <3>3. CASE rec = NoRecord
      <4>1. now > codes[n].sentAt + Validity
        BY <3>1, <3>2, <3>3 DEF OtpInv, DroppedIsOver, n
      <4> QED
        BY <4>1, <3>1, <3>2, <1>1, OtpAssumption
    <3>4. CASE rec # NoRecord
      <4>1. /\ rec.expiresAt = codes[n].sentAt + Validity
            /\ rec.attempts = codes[n].tries /\ rec.lastSentAt = codes[n].sentAt
        BY <3>4 DEF OtpInv, RecordIsLast, n
      <4>2. now - rec.lastSentAt >= Cooldown /\ ~(rec.expiresAt > now /\ rec.attempts >= MaxTries)
        BY <3>4 DEF SendPhoneOtp, Blocked
      <4> QED
        BY <4>1, <4>2, <3>1, <3>2, <1>1, OtpAssumption
    <3> QED
      BY <3>3, <3>4
  <2> QED
    BY <2>1, <2>2, <1>1
<1> QED
  BY <1>8, <1>9, <1>10, <1>11, <1>12, <1>13 DEF OtpInv

\* The record of an expired code goes: by the timer, or by an attempt that is late.
LEMMA DropOtp ==
    ASSUME OtpInv, rec # NoRecord, now > rec.expiresAt,
           rec' = NoRecord, UNCHANGED <<now, codes>>
    PROVE  OtpInv'
<1>1. now' = now /\ codes' = codes
  OBVIOUS
<1>2. Types'
  BY <1>1, OtpAssumption DEF OtpInv, Types, NoRecord
<1>3. RecordIsLast'
  BY DEF RecordIsLast, NoRecord
<1>4. now > codes[Len(codes)].sentAt + Validity
  BY DEF OtpInv, RecordIsLast
<1>5. DroppedIsOver'
  BY <1>1, <1>4 DEF DroppedIsOver
<1>6. NothingAhead' /\ CodeIsLimited' /\ SendsSpaced'
  BY <1>1 DEF OtpInv, NothingAhead, CodeIsLimited, SendsSpaced, Never
<1> QED
  BY <1>2, <1>3, <1>5, <1>6 DEF OtpInv

\* An attempt on a code that is good: only the code sent last changes.
LEMMA TryOtp ==
    ASSUME NEW c \in 0 .. Len(codes), OtpInv, rec # NoRecord, now <= rec.expiresAt, Tries(c),
           rec' = IF c = rec.code THEN NoRecord ELSE [rec EXCEPT !.attempts = @ + 1],
           codes' = [codes EXCEPT ![rec.code].tries = @ + 1,
                                  ![rec.code].verifiedAt = IF c = rec.code THEN now ELSE @],
           now' = now
    PROVE  OtpInv'
<1> DEFINE n == Len(codes)
           last == codes[n]
           tried == [sentAt |-> last.sentAt, tries |-> last.tries + 1,
                     verifiedAt |-> IF c = n THEN now ELSE Never]
<1>1. /\ now \in Nat /\ now \in 0 .. MaxTime
      /\ n \in Nat /\ n > 0 /\ codes \in Seq(Code)
      /\ rec.code = n /\ rec.expiresAt = last.sentAt + Validity
      /\ rec.attempts = last.tries /\ rec.lastSentAt = last.sentAt /\ last.verifiedAt = Never
  BY OtpAssumption DEF OtpInv, Types, RecordIsLast
<1>2. DOMAIN codes = 1 .. n /\ n \in 1 .. n
  BY <1>1
<1>3. last \in Code /\ last.sentAt \in 0 .. MaxTime /\ last.tries \in Nat
  BY <1>2, CodeFields DEF OtpInv
<1>4. tried \in Code
  BY <1>1, <1>3 DEF Code
<1>5. last.tries < MaxTries
  BY <1>1 DEF Tries
<1>6. codes' = [codes EXCEPT ![n] = tried]
  <2> HIDE DEF last
  <2>1. [[last EXCEPT !.tries = last.tries + 1]
            EXCEPT !.verifiedAt = IF c = n THEN now ELSE last.verifiedAt] = tried
    <3>1. last.tries + 1 \in Nat /\ (IF c = n THEN now ELSE Never) \in {Never} \cup 0 .. MaxTime
      BY <1>1, <1>3
    <3> QED
      BY <3>1, <1>1, <1>3, UpdatedCode
  <2>2. codes' = [codes EXCEPT ![n] = [[last EXCEPT !.tries = last.tries + 1]
                        EXCEPT !.verifiedAt = IF c = n THEN now ELSE last.verifiedAt]]
    BY <1>1, <1>2 DEF last
  <2> QED
    BY <2>1, <2>2
<1>7. /\ codes' \in Seq(Code) /\ Len(codes') = n /\ codes'[n] = tried
      /\ \A i \in 1 .. n : i # n => codes'[i] = codes[i]
  <2> HIDE DEF tried, n
  <2>1. /\ [codes EXCEPT ![n] = tried] \in Seq(Code)
        /\ Len([codes EXCEPT ![n] = tried]) = n
    BY <1>1, <1>2, <1>4, ExceptSeq DEF n
  <2>2. \A i \in 1 .. n : codes'[i] = IF i = n THEN tried ELSE codes[i]
    BY <1>2, <1>6
  <2> QED
    BY <1>2, <1>6, <2>1, <2>2
<1>8. DOMAIN codes' = 1 .. n
  BY <1>7
<1>9. /\ tried.sentAt = last.sentAt /\ tried.tries = last.tries + 1
      /\ tried.verifiedAt = IF c = n THEN now ELSE Never
  OBVIOUS
<1>10. codes[n] = last
  OBVIOUS
<1> HIDE DEF n, tried, last
<1>11. Types'
  <2>1. CASE c = n
    BY <2>1, <1>1, <1>7, OtpAssumption DEF OtpInv, Types, NoRecord, n
  <2>2. CASE c # n
    <3>1. rec.attempts + 1 \in 0 .. MaxTries
      BY <1>1, <1>3, <1>5, OtpAssumption
    <3>2. rec' = [rec EXCEPT !.attempts = rec.attempts + 1]
      BY <2>2, <1>1
    <3> QED
      BY <3>1, <3>2, <1>1, <1>7 DEF OtpInv, Types, n
  <2> QED
    BY <2>1, <2>2
<1>12. RecordIsLast' /\ DroppedIsOver'
  <2>1. CASE c = n
    <3>1. rec' = NoRecord /\ codes'[Len(codes')].verifiedAt = now /\ now # Never
      BY <2>1, <1>1, <1>7, <1>9 DEF Never
    <3> QED
      BY <3>1 DEF RecordIsLast, DroppedIsOver, NoRecord, Never
  <2>2. CASE c # n
    <3>1. /\ rec'.code = n /\ rec'.expiresAt = tried.sentAt + Validity
          /\ rec'.attempts = tried.tries /\ rec'.lastSentAt = tried.sentAt
          /\ tried.verifiedAt = Never
      BY <2>2, <1>1, <1>3, <1>9 DEF OtpInv, Types
    <3>2. rec' # NoRecord
      BY <3>1, <1>1 DEF NoRecord
    <3> QED
      BY <3>1, <3>2, <1>1, <1>7 DEF RecordIsLast, DroppedIsOver, NoRecord, Never
  <2> QED
    BY <2>1, <2>2
<1>13. NothingAhead'
  <2> SUFFICES ASSUME NEW i \in 1 .. n
               PROVE codes'[i].sentAt <= now /\ codes'[i].verifiedAt <= now
    BY <1>8 DEF NothingAhead
  <2>1. codes[i].sentAt <= now /\ codes[i].verifiedAt <= now
    BY <1>2 DEF OtpInv, NothingAhead
  <2>2. CASE i = n
    BY <2>1, <2>2, <1>1, <1>7, <1>9, <1>10 DEF Never
  <2> QED
    BY <2>1, <2>2, <1>7
<1>14. CodeIsLimited'
  <2> SUFFICES ASSUME NEW i \in 1 .. n
               PROVE /\ codes'[i].tries <= MaxTries
                     /\ codes'[i].verifiedAt # Never =>
                          /\ codes'[i].verifiedAt <= codes'[i].sentAt + Validity
                          /\ i < n => codes'[i].verifiedAt <= codes'[i + 1].sentAt
    BY <1>7, <1>8 DEF CodeIsLimited, Never
  <2>1. CASE i = n
    <3>1. codes'[i].tries = last.tries + 1 /\ codes'[i].sentAt = last.sentAt
      BY <2>1, <1>7, <1>9
    <3>2. codes'[i].verifiedAt # Never => codes'[i].verifiedAt = now
      BY <2>1, <1>7, <1>9
    <3>3. last.tries + 1 <= MaxTries /\ now <= last.sentAt + Validity
      BY <1>1, <1>3, <1>5, OtpAssumption
    <3>4. ~(i < n)
      BY <2>1, <1>1
    <3> QED
      BY <3>1, <3>2, <3>3, <3>4
  <2>2. CASE i < n
    <3>1. codes'[i] = codes[i] /\ codes'[i + 1].sentAt = codes[i + 1].sentAt
      BY <2>2, <1>1, <1>7, <1>9, <1>10
    <3> QED
      BY <3>1, <2>2, <1>2 DEF OtpInv, CodeIsLimited, n
  <2> QED
    BY <2>1, <2>2, <1>1
<1>15. SendsSpaced'
  <2> SUFFICES ASSUME NEW i \in 1 .. n - 1, codes'[i].verifiedAt = Never
               PROVE codes'[i + 1].sentAt - codes'[i].sentAt
                         >= IF codes'[i].tries = MaxTries THEN Validity ELSE Cooldown
    BY <1>7 DEF SendsSpaced, Never
  <2>1. codes'[i] = codes[i] /\ codes'[i + 1].sentAt = codes[i + 1].sentAt
    BY <1>1, <1>7, <1>9, <1>10
  <2> QED
    BY <2>1 DEF OtpInv, SendsSpaced, n
<1> QED
  BY <1>11, <1>12, <1>13, <1>14, <1>15 DEF OtpInv

\* The inductive invariant holds of every behaviour of the handlers and the timer.
THEOREM OtpInvHolds == Spec => []OtpInv
<1>1. Init => OtpInv
  BY InitOtp
<1>2. OtpInv /\ [Next]_vars => OtpInv'
  <2> SUFFICES ASSUME OtpInv, [Next]_vars PROVE OtpInv'
    OBVIOUS
  <2>1. CASE Tick
    BY <2>1, TickOtp
  <2>2. CASE SendPhoneOtp
    BY <2>2, SendOtp
  <2>3. CASE Sweep
    <3>1. rec.expiresAt \in Int /\ now \in Int
      BY OtpAssumption DEF OtpInv, Types
    <3> QED
      BY <2>3, <3>1, DropOtp DEF Sweep
  <2>4. ASSUME NEW c \in 0 .. Len(codes), VerifyPhoneOtp(c) PROVE OtpInv'
    <3>1. CASE now > rec.expiresAt /\ rec' = NoRecord /\ UNCHANGED codes
      BY <2>4, <3>1, DropOtp DEF VerifyPhoneOtp
    <3>2. CASE /\ now <= rec.expiresAt
               /\ Tries(c)
               /\ rec' = IF c = rec.code THEN NoRecord ELSE [rec EXCEPT !.attempts = @ + 1]
               /\ codes' = [codes EXCEPT ![rec.code].tries = @ + 1,
                                         ![rec.code].verifiedAt = IF c = rec.code THEN now ELSE @]
      BY <2>4, <3>2, TryOtp DEF VerifyPhoneOtp
    <3> QED
      BY <2>4, <3>1, <3>2 DEF VerifyPhoneOtp
  <2>5. CASE UNCHANGED vars
    <3>1. now' = now /\ rec' = rec /\ codes' = codes
      BY <2>5 DEF vars
    <3>2. Types' /\ RecordIsLast' /\ DroppedIsOver'
      BY <3>1 DEF OtpInv, Types, RecordIsLast, DroppedIsOver, NoRecord, Never
    <3>3. NothingAhead' /\ CodeIsLimited' /\ SendsSpaced'
      BY <3>1 DEF OtpInv, NothingAhead, CodeIsLimited, SendsSpaced, Never
    <3> QED
      BY <3>2, <3>3 DEF OtpInv
  <2> QED
    BY <2>1, <2>2, <2>3, <2>4, <2>5 DEF Next
<1> QED
  BY <1>1, <1>2, PTL DEF Spec

\* The record and the codes of a number keep their types; in particular no record
\* counts more than MaxTries attempts.
THEOREM OtpTypeCorrect == Spec => []TypeOK
BY OtpInvHolds, OtpTypes, PTL

\* A code is compared at most MaxTries times and is verified only while it is good
\* and the newest one, however sends, attempts, expiry and the timer interleave.
THEOREM CodesAreLimited == Spec => []CodeIsLimited
<1>1. OtpInv => CodeIsLimited
  BY DEF OtpInv
<1> QED
  BY <1>1, OtpInvHolds, PTL

\* Asking for another code does not get round the cooldown or the block on a code
\* whose attempts are used up: dropping the record is no way out.
THEOREM SendsAreSpaced == Spec => []SendsSpaced
<1>1. OtpInv => SendsSpaced
  BY DEF OtpInv
<1> QED
  BY <1>1, OtpInvHolds, PTL

=============================================================================
