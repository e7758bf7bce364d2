------------------------------ MODULE TwoFactor ------------------------------
(***************************************************************************)
(* The second factor of one user: plugins/twofactor over the one-time      *)
(* tokens of token.go.  A sign-in that passed its first factor leaves a    *)
(* pending challenge; requests answer it with a TOTP code, an emailed OTP  *)
(* or a backup code, while other requests enrol, re-enrol, regenerate      *)
(* codes or disable the factor.  One database call is one step, and a      *)
(* request may stop between any two.                                       *)
(*                                                                         *)
(* Data is abstracted to identities.  A TOTP code is the time step it is   *)
(* computed for, under the secret of one record.  There is no clock: the   *)
(* code of any step may be inside the skew window when it is presented (a  *)
(* code outside it, or of another secret, is a wrong code), and a token's  *)
(* expiry is a step that may remove it at any time.  Ciphertexts of backup *)
(* codes compare as the code sets they hold: a set only shrinks or is      *)
(* replaced by fresh codes, so no two encryptions of a row are alike.      *)
(***************************************************************************)
EXTENDS Integers, FiniteSets

CONSTANTS
  Requests,           \* concurrently running requests
  Challenges,         \* pending-challenge tokens that may be issued
  MaxVerifyAttempts,  \* maxVerifyAttempts
  BackupCodeCount,    \* Options.BackupCodeCount
  SkipVerificationOnEnable,
  MaxStep,            \* bound on TOTP time steps
  MaxIds              \* bound on the identities drawn

ASSUME TwoFactorAssumption ==
  /\ MaxVerifyAttempts \in Nat \ {0}
  /\ BackupCodeCount \in Nat
  /\ SkipVerificationOnEnable \in BOOLEAN
  /\ MaxStep \in Nat
  /\ MaxIds \in Nat

VARIABLES
  enabled,      \* user.twoFactorEnabled
  recs,         \* the user's rows of the twoFactor table
  pending,      \* verification rows of kind two-factor-pending
  otps,         \* verification rows of kind two-factor-otp
  issued,       \* challenge tokens generated so far
  ids,          \* identities drawn so far: records with their secret, code sets, OTPs
  pc, loc,      \* the next database call of each request, and its locals
  fails,        \* history: wrong codes counted per challenge
  sessions,     \* history: sessions minted per challenge
  accepted,     \* history: TOTP and backup codes accepted for a sign-in
  replayed      \* history: those accepted more than once

vars == <<enabled, recs, pending, otps, issued, ids, pc, loc,
          fails, sessions, accepted, replayed>>
history == <<fails, sessions, accepted, replayed>>

Id == 0 .. MaxIds - 1
Step == 0 .. MaxStep
BackupCode == [set : Id, n : 1 .. BackupCodeCount]
Record == [id : Id, lastCounter : Step, backupCodes : SUBSET BackupCode]
PendingRow == [token : Challenges, attempts : 0 .. MaxVerifyAttempts - 1]

\* The code an accepted answer gave.
Totp(rec, counter) == [by |-> "totp", id |-> rec, n |-> counter]
Backup(code) == [by |-> "backup", id |-> code.set, n |-> code.n]
Factor == [by : {"totp", "backup"}, id : Id, n : Nat]
None == [by |-> "none"]

PCs == {"idle", "claimCounter", "spendBackup",
        "deleteOTP", "fail", "reinstateDelete", "reinstate",
        "complete", "mint", "enableCheck", "enableDelete",
        "enableCreate", "flagOn", "flagOff", "regenerate", "otpCreate"}

\* ch: the challenge; row: the id of the row to update or delete; factor: the
\* accepted code (None for an OTP); rec: the record as it was read; attempts:
\* the count to reinstate.
NoRec == [id |-> -1, lastCounter |-> 0, backupCodes |-> {}]
NoLocals == [ch |-> "none", row |-> -1, attempts |-> 0, factor |-> None, rec |-> NoRec]

Locals == [ch : Challenges \cup {"none"}, row : Id \cup {-1},
           attempts : 0 .. MaxVerifyAttempts - 1,
           factor : Factor \cup {None}, rec : Record \cup {NoRec}]

TypeOK ==
  /\ enabled \in BOOLEAN
  /\ recs \subseteq Record
  /\ pending \subseteq PendingRow
  /\ otps \subseteq Id
  /\ issued \subseteq Challenges
  /\ ids \in 0 .. MaxIds
  /\ pc \in [Requests -> PCs]
  /\ loc \in [Requests -> Locals]
  /\ {fails, sessions} \subseteq [Challenges -> Nat]
  /\ accepted \subseteq Factor /\ replayed \subseteq accepted

Init ==
  /\ enabled = FALSE
  /\ recs = {} /\ pending = {} /\ otps = {} /\ issued = {}
  /\ ids = 0
  /\ pc = [r \in Requests |-> "idle"]
  /\ loc = [r \in Requests |-> NoLocals]
  /\ fails = [c \in Challenges |-> 0]
  /\ sessions = [c \in Challenges |-> 0]
  /\ accepted = {} /\ replayed = {}

Accept(code) ==
  /\ accepted' = accepted \cup {code}
  /\ replayed' = replayed \cup ({code} \cap accepted)

Goto(r, label) == pc' = [pc EXCEPT ![r] = label]
Return(r) == Goto(r, "idle") /\ loc' = [loc EXCEPT ![r] = NoLocals]

\* The rest of the request is failAttempt, or completePending: only the
\* challenge is still needed.
ToFail(r, ch) ==
  /\ Goto(r, "fail")
  /\ loc' = [loc EXCEPT ![r] = [NoLocals EXCEPT !.ch = ch]]
ToComplete(r) ==
  /\ Goto(r, "complete")
  /\ loc' = [loc EXCEPT ![r] = [NoLocals EXCEPT !.ch = loc[r].ch]]

FreshCodes == [set : {ids}, n : 1 .. BackupCodeCount]

-----------------------------------------------------------------------------
(* First factor passed: the pending challenge *)

BeforeSignIn(ch) ==
  /\ enabled
  /\ ch \notin issued
  /\ issued' = issued \cup {ch}
  /\ pending' = pending \cup {[token |-> ch, attempts |-> 0]}
  /\ UNCHANGED <<enabled, recs, otps, ids, pc, loc, history>>

\* A pending row outlives its TTL and is no longer found, or is swept.
PendingExpires ==
  /\ \E row \in pending : pending' = pending \ {row}
  /\ UNCHANGED <<enabled, recs, otps, issued, ids, pc, loc, history>>

-----------------------------------------------------------------------------
(* Answering a challenge *)

\* pendingUser, at the head of the three verify handlers.  Its lookup
\* happened at some instant since the challenge was issued: what it returned
\* is not used again, and the challenge may be gone by the next call.
PendingUser(r, ch) ==
  /\ pc[r] = "idle"
  /\ ch \in issued

\* handleVerifyTOTP: read the record and judge the code.
VerifyTOTP(r, ch) ==
  /\ PendingUser(r, ch)
  /\ \E rec \in recs :
       \/ ToFail(r, ch)
       \/ \E counter \in Step :
            /\ Goto(r, "claimCounter")
            /\ loc' = [loc EXCEPT ![r].ch = ch, ![r].rec = rec,
                                  ![r].factor = Totp(rec.id, counter)]
  /\ UNCHANGED <<enabled, recs, pending, otps, issued, ids, history>>

\* Mutant: the counter is stored without comparing it with the one read.
ClaimCounterBlind(r) ==
  LET rec == loc[r].rec  counter == loc[r].factor.n IN
  /\ pc[r] = "claimCounter"
  /\ recs' = {IF x.id = rec.id THEN [x EXCEPT !.lastCounter = counter] ELSE x : x \in recs}
  /\ \/ /\ counter > rec.lastCounter
        /\ ToComplete(r)
        /\ Accept(loc[r].factor)
     \/ /\ counter <= rec.lastCounter
        /\ ToFail(r, loc[r].ch)
        /\ UNCHANGED <<accepted, replayed>>
  /\ UNCHANGED <<enabled, pending, otps, issued, ids, fails, sessions>>

\* Mutant: the row is saved as it was read, its backup codes with it.
ClaimCounterWholeRow(r) ==
  LET rec == loc[r].rec
      counter == loc[r].factor.n
      match == {x \in recs : x.id = rec.id /\ x.lastCounter = rec.lastCounter} IN
  /\ pc[r] = "claimCounter"
  /\ \/ /\ counter > rec.lastCounter /\ match # {}
        /\ recs' = (recs \ match) \cup {[rec EXCEPT !.lastCounter = counter]}
        /\ ToComplete(r)
        /\ Accept(loc[r].factor)
     \/ /\ counter <= rec.lastCounter \/ match = {}
        /\ ToFail(r, loc[r].ch)
        /\ UNCHANGED <<recs, accepted, replayed>>
  /\ UNCHANGED <<enabled, pending, otps, issued, ids, fails, sessions>>

\* claimCounter: a code that is not newer than the record as read, or whose
\* compare-and-set finds another counter stored by now, is a wrong code.
ClaimCounter(r) ==
  LET rec == loc[r].rec
      counter == loc[r].factor.n
      match == {x \in recs : x.id = rec.id /\ x.lastCounter = rec.lastCounter} IN
  /\ pc[r] = "claimCounter"
  /\ \/ /\ counter > rec.lastCounter /\ match # {}
        /\ recs' = {IF x \in match THEN [x EXCEPT !.lastCounter = counter] ELSE x : x \in recs}
        /\ ToComplete(r)
        /\ Accept(loc[r].factor)
     \/ /\ counter <= rec.lastCounter \/ match = {}
        /\ ToFail(r, loc[r].ch)
        /\ UNCHANGED <<recs, accepted, replayed>>
  /\ UNCHANGED <<enabled, pending, otps, issued, ids, fails, sessions>>

\* handleVerifyOTP: the newest OTP row decides; none left ends the request.
VerifyOTP(r, ch) ==
  /\ PendingUser(r, ch)
  /\ \E row \in otps :
       /\ \A other \in otps : other <= row
       /\ \/ ToFail(r, ch)
          \/ /\ Goto(r, "deleteOTP")
             /\ loc' = [loc EXCEPT ![r].ch = ch, ![r].row = row]
  /\ UNCHANGED <<enabled, recs, pending, otps, issued, ids, history>>

\* DeleteVerificationValue: whether this call removed the row, or failed, is
\* not asked.
DeleteOTP(r) ==
  /\ pc[r] = "deleteOTP"
  /\ otps' \in {otps \ {loc[r].row}, otps}
  /\ ToComplete(r)
  /\ UNCHANGED <<enabled, recs, pending, issued, ids, history>>

\* handleVerifyBackupCode: read the record and look the code up.
VerifyBackupCode(r, ch) ==
  /\ PendingUser(r, ch)
  /\ \E rec \in recs :
       \/ ToFail(r, ch)
       \/ \E code \in rec.backupCodes :
            /\ Goto(r, "spendBackup")
            /\ loc' = [loc EXCEPT ![r].ch = ch, ![r].rec = rec,
                                  ![r].factor = Backup(code)]
  /\ UNCHANGED <<enabled, recs, pending, otps, issued, ids, history>>

SpentCode(r) == [set |-> loc[r].factor.id, n |-> loc[r].factor.n]

\* Mutant: the remaining codes are written back unconditionally.
SpendBackupCodeBlind(r) ==
  LET rec == loc[r].rec
      left == rec.backupCodes \ {SpentCode(r)} IN
  /\ pc[r] = "spendBackup"
  /\ recs' = {IF x.id = rec.id THEN [x EXCEPT !.backupCodes = left] ELSE x : x \in recs}
  /\ ToComplete(r)
  /\ Accept(loc[r].factor)
  /\ UNCHANGED <<enabled, pending, otps, issued, ids, fails, sessions>>

\* The code is consumed by a compare-and-set on the stored code set; when
\* the set changed since it was read, the client is told to retry.
SpendBackupCode(r) ==
  LET rec == loc[r].rec
      left == rec.backupCodes \ {SpentCode(r)}
      match == {x \in recs : x.id = rec.id /\ x.backupCodes = rec.backupCodes} IN
  /\ pc[r] = "spendBackup"
  /\ \/ /\ match # {}
        /\ recs' = {IF x \in match THEN [x EXCEPT !.backupCodes = left] ELSE x : x \in recs}
        /\ ToComplete(r)
        /\ Accept(loc[r].factor)
     \/ /\ match = {}
        /\ Return(r)
        /\ UNCHANGED <<recs, accepted, replayed>>
  /\ UNCHANGED <<enabled, pending, otps, issued, ids, fails, sessions>>

-----------------------------------------------------------------------------
(* ConsumeToken on the pending challenge, from failAttempt and completePending.
   It is one step here: its lookup returns a row and its delete claims that
   row or fails, which is what OneTimeTokens shows of it (ImplementsVault). *)

\* Mutant: the attempt is counted and the challenge put back without
\* claiming it first.
FailAttemptUnclaimed(r) ==
  /\ pc[r] = "fail"
  /\ \E row \in pending :
       /\ row.token = loc[r].ch
       /\ fails' = [fails EXCEPT ![loc[r].ch] = @ + 1]
       /\ IF row.attempts + 1 >= MaxVerifyAttempts
          THEN pending' = pending \ {row} /\ Return(r)
          ELSE /\ Goto(r, "reinstateDelete")
               /\ loc' = [loc EXCEPT ![r].attempts = row.attempts + 1]
               /\ UNCHANGED pending
  /\ UNCHANGED <<enabled, recs, otps, issued, ids, sessions, accepted, replayed>>

\* Mutant: one attempt too many before the challenge is discarded.
FailAttemptLate(r) ==
  /\ pc[r] = "fail"
  /\ \/ /\ \A row \in pending : row.token # loc[r].ch
        /\ Return(r)
        /\ UNCHANGED <<pending, fails>>
     \/ \E row \in pending :
          /\ row.token = loc[r].ch
          /\ pending' = pending \ {row}
          /\ fails' = [fails EXCEPT ![loc[r].ch] = @ + 1]
          /\ \/ /\ row.attempts + 1 > MaxVerifyAttempts
                /\ Return(r)
             \/ /\ row.attempts + 1 <= MaxVerifyAttempts
                /\ Goto(r, "reinstateDelete")
                /\ loc' = [loc EXCEPT ![r].attempts = row.attempts + 1]
  /\ UNCHANGED <<enabled, recs, otps, issued, ids, sessions, accepted, replayed>>

\* failAttempt: the claim decides which of the racing wrong guesses counts;
\* the challenge is discarded with the last attempt it allows.
FailAttempt(r) ==
  /\ pc[r] = "fail"
  /\ \/ /\ \A row \in pending : row.token # loc[r].ch
        /\ Return(r)
        /\ UNCHANGED <<pending, fails>>
     \/ \E row \in pending :
          /\ row.token = loc[r].ch
          /\ pending' = pending \ {row}
          /\ fails' = [fails EXCEPT ![loc[r].ch] = @ + 1]
          /\ \/ /\ row.attempts + 1 >= MaxVerifyAttempts
                /\ Return(r)
             \/ /\ row.attempts + 1 < MaxVerifyAttempts
                /\ Goto(r, "reinstateDelete")
                /\ loc' = [loc EXCEPT ![r].attempts = row.attempts + 1]
  /\ UNCHANGED <<enabled, recs, otps, issued, ids, sessions, accepted, replayed>>

\* The StoreTokenValue that reinstates the challenge, as its two calls.
ReinstateDelete(r) ==
  /\ pc[r] = "reinstateDelete"
  /\ pending' = {row \in pending : row.token # loc[r].ch}
  /\ Goto(r, "reinstate")
  /\ UNCHANGED <<enabled, recs, otps, issued, ids, loc, history>>

Reinstate(r) ==
  /\ pc[r] = "reinstate"
  /\ pending' = pending \cup {[token |-> loc[r].ch, attempts |-> loc[r].attempts]}
  /\ Return(r)
  /\ UNCHANGED <<enabled, recs, otps, issued, ids, history>>

\* Mutant: completePending goes on although ConsumeToken returned an error.
CompletePendingUnclaimed(r) ==
  /\ pc[r] = "complete"
  /\ pending' = {row \in pending : row.token # loc[r].ch}
  /\ Goto(r, "mint")
  /\ UNCHANGED <<enabled, recs, otps, issued, ids, loc, history>>

\* completePending: of two racing right answers only the one that removes
\* the challenge goes on.
CompletePending(r) ==
  /\ pc[r] = "complete"
  /\ \/ /\ \A row \in pending : row.token # loc[r].ch
        /\ Return(r)
        /\ UNCHANGED pending
     \/ \E row \in pending :
          /\ row.token = loc[r].ch
          /\ pending' = pending \ {row}
          /\ Goto(r, "mint")
          /\ UNCHANGED loc
  /\ UNCHANGED <<enabled, recs, otps, issued, ids, history>>

\* The later guards let the sign-in pass and the session is created.  (When
\* one of them takes over or fails, the request ends: Abandon.)
CreateSessionFor(r) ==
  /\ pc[r] = "mint"
  /\ sessions' = [sessions EXCEPT ![loc[r].ch] = @ + 1]
  /\ Return(r)
  /\ UNCHANGED <<enabled, recs, pending, otps, issued, ids, fails, accepted, replayed>>

-----------------------------------------------------------------------------
(* Managing the factor, from a session whose owner gave the password *)

\* handleEnable: with the factor active, a current code is needed to go on.
Enable(r) ==
  /\ pc[r] = "idle"
  /\ Goto(r, IF enabled THEN "enableCheck" ELSE "enableDelete")
  /\ UNCHANGED <<enabled, recs, pending, otps, issued, ids, loc, history>>

\* verifyExistingFactor accepts a TOTP code of the window or a stored
\* backup code, and spends neither.  Any other code ends the request.
VerifyExistingFactor(r) ==
  /\ pc[r] = "enableCheck"
  /\ recs # {}
  /\ Goto(r, "enableDelete")
  /\ UNCHANGED <<enabled, recs, pending, otps, issued, ids, loc, history>>

\* The error of the delete is not looked at, and userId is not unique.
EnableDelete(r) ==
  /\ pc[r] = "enableDelete"
  /\ recs' \in {{}, recs}
  /\ Goto(r, "enableCreate")
  /\ UNCHANGED <<enabled, pending, otps, issued, ids, loc, history>>

EnableCreate(r) ==
  /\ pc[r] = "enableCreate"
  /\ ids < MaxIds
  /\ recs' = recs \cup {[id |-> ids, lastCounter |-> 0, backupCodes |-> FreshCodes]}
  /\ ids' = ids + 1
  /\ Goto(r, IF SkipVerificationOnEnable THEN "flagOn" ELSE "idle")
  /\ UNCHANGED <<enabled, pending, otps, issued, loc, history>>

\* handleVerifyTOTP without a challenge: a right code finishes enabling.
FinishEnabling(r) ==
  /\ pc[r] = "idle"
  /\ recs # {}
  /\ Goto(r, "flagOn")
  /\ UNCHANGED <<enabled, recs, pending, otps, issued, ids, loc, history>>

Disable(r) ==
  /\ pc[r] = "idle"
  /\ recs' = {}
  /\ Goto(r, "flagOff")
  /\ UNCHANGED <<enabled, pending, otps, issued, ids, loc, history>>

SetFlag(r) ==
  /\ pc[r] \in {"flagOn", "flagOff"}
  /\ enabled' = (pc[r] = "flagOn")
  /\ Return(r)
  /\ UNCHANGED <<recs, pending, otps, issued, ids, history>>

\* handleGenerateBackupCodes: read the record's id, then overwrite its codes.
GenerateBackupCodes(r) ==
  /\ pc[r] = "idle"
  /\ \E rec \in recs : loc' = [loc EXCEPT ![r].row = rec.id]
  /\ Goto(r, "regenerate")
  /\ UNCHANGED <<enabled, recs, pending, otps, issued, ids, history>>

ReplaceBackupCodes(r) ==
  LET match == {rec \in recs : rec.id = loc[r].row} IN
  /\ pc[r] = "regenerate"
  /\ ids < MaxIds
  /\ recs' = (recs \ match) \cup {[rec EXCEPT !.backupCodes = FreshCodes] : rec \in match}
  /\ ids' = ids + 1
  /\ Return(r)
  /\ UNCHANGED <<enabled, pending, otps, issued, history>>

\* handleSendOTP: StoreTokenValue under the user's id, as its two calls.
SendOTP(r) ==
  /\ pc[r] = "idle"
  /\ otps' = {}
  /\ Goto(r, "otpCreate")
  /\ UNCHANGED <<enabled, recs, pending, issued, ids, loc, history>>

StoreOTP(r) ==
  /\ pc[r] = "otpCreate"
  /\ ids < MaxIds
  /\ otps' = otps \cup {ids}
  /\ ids' = ids + 1
  /\ Return(r)
  /\ UNCHANGED <<enabled, recs, pending, issued, history>>

-----------------------------------------------------------------------------
\* A call fails, the client goes away or the process dies between two calls.
Abandon(r) ==
  /\ pc[r] # "idle"
  /\ Return(r)
  /\ UNCHANGED <<enabled, recs, pending, otps, issued, ids, history>>

Answer(r) ==
  \/ \E ch \in Challenges : VerifyTOTP(r, ch) \/ VerifyOTP(r, ch) \/ VerifyBackupCode(r, ch)
  \/ ClaimCounter(r) \/ DeleteOTP(r) \/ SpendBackupCode(r)
  \/ FailAttempt(r) \/ ReinstateDelete(r) \/ Reinstate(r)
  \/ CompletePending(r) \/ CreateSessionFor(r)

Manage(r) ==
  \/ Enable(r) \/ VerifyExistingFactor(r) \/ EnableDelete(r) \/ EnableCreate(r)
  \/ FinishEnabling(r) \/ Disable(r) \/ SetFlag(r)
  \/ GenerateBackupCodes(r) \/ ReplaceBackupCodes(r)
  \/ SendOTP(r) \/ StoreOTP(r)

Next ==
  \/ \E r \in Requests : Answer(r) \/ Manage(r) \/ Abandon(r)
  \/ \E ch \in Challenges : BeforeSignIn(ch)
  \/ PendingExpires

Spec == Init /\ [][Next]_vars

-----------------------------------------------------------------------------
(* Properties *)

\* completePending consumes the challenge first: however wrong and right
\* answers race, and although failAttempt takes the challenge away and puts
\* it back, one first factor buys at most one session.
OneSessionPerChallenge == \A ch \in Challenges : sessions[ch] <= 1

\* Claiming the challenge before counting serialises racing wrong guesses:
\* no count is lost, so the challenge carries every failure counted against
\* it and is gone once maxVerifyAttempts of them were.
AttemptsCounted ==
  /\ \A row \in pending : row.attempts = fails[row.token]
  /\ \A ch \in Challenges : fails[ch] <= MaxVerifyAttempts

\* claimCounter: the code of one time step is accepted for at most one
\* sign-in, also when two challenges are answered with it at the same time.
TOTPCodeOnce == \A code \in replayed : code.by # "totp"

\* A backup code is accepted for at most one sign-in, whatever happens to the
\* stored set between reading it and writing the rest of it back.
BackupCodeOnce == \A code \in replayed : code.by # "backup"

Stored == UNION {rec.backupCodes : rec \in recs}

\* A code that was spent, replaced by a regeneration or dropped by a
\* re-enrolment never reappears in the stored set, although a request that
\* spends a code writes the whole set back: what a step adds is newly drawn.
CodesNeverReturn == [][\A code \in Stored' \ Stored : code.set = ids]_vars
=============================================================================
