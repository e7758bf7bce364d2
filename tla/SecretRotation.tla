--------------------------- MODULE SecretRotation ---------------------------
(***************************************************************************)
(* Rotating Config.Secret under load: a fleet of instances is redeployed   *)
(* from the old secret (stage 0) to the new one with the old as previous   *)
(* (stage 1) and then to the new one alone, with unbound formats rejected  *)
(* (stage 2).  In between, ReencryptSecrets walks a table in id order and  *)
(* rewrites its encrypted columns while requests insert, delete and write  *)
(* them.  A step is one storage call.                                      *)
(*                                                                         *)
(* A ciphertext is its key, its format, the place it is bound to and the   *)
(* plaintext, which is numbered by writes.  The operator follows the       *)
(* documented steps: the pass runs once all instances are at stage 1, and  *)
(* the old secret is dropped after a pass that reported Done and no error. *)
(***************************************************************************)
EXTENDS Naturals, FiniteSets

CONSTANTS
  Instances,
  Rows,         \* number of row ids; ids are 1 .. Rows, in the order of the walk
  Fields,       \* the encrypted columns
  BatchSize,    \* reencryptBatchSize
  MaxWrites, MaxFailures   \* bounds: writes by requests, storage calls that fail

ASSUME SecretRotationAssumption ==
  /\ {Rows, BatchSize} \subseteq Nat \ {0}
  /\ {MaxWrites, MaxFailures} \subseteq Nat

VARIABLES
  stage,      \* which configuration each instance runs
  table,      \* row id -> column -> ciphertext, or NoRow
  writes,     \* writes by requests so far
  failures,   \* storage calls of the pass that have failed
  pass,       \* the pass under way
  done        \* the last completed pass reported Done

rotationVars == <<stage, table, writes, failures, pass, done>>

Ids == 1 .. Rows
\* A Binding, which is authenticated data: the record and the field.
Place == Ids \X Fields
NoPlace == <<0, 0>>
NoCell == [key |-> "none", format |-> 0, place |-> NoPlace, plain |-> 0]
NoRow == [f \in Fields |-> NoCell]

\* Formats 0 and 1 are not bound to a place, format 2 is.
Ciphertext == [key : {"old", "new"}, format : 0 .. 2, place : Place \cup {NoPlace},
               plain : 0 .. MaxWrites]

\* on: whether a pass runs; cursor: lastID; read: the cells of the page still to
\* rewrite, as they were read; full: the page was full; clean: nothing found so
\* far that keeps the pass from being Done.
NoPass == [on |-> FALSE, cursor |-> 0, read |-> {}, full |-> TRUE, clean |-> TRUE]

RotationTypeOK ==
  /\ stage \in [Instances -> 0 .. 2]
  /\ \A i \in Ids : table[i] = NoRow \/ table[i] \in [Fields -> Ciphertext]
  /\ \A p \in Place : table[p[1]] # NoRow =>
       table[p[1]][p[2]].place = IF table[p[1]][p[2]].format = 2 THEN p ELSE NoPlace
  /\ writes \in 0 .. MaxWrites /\ failures \in 0 .. MaxFailures
  /\ pass.cursor \in 0 .. Rows /\ {pass.on, pass.full, pass.clean, done} \subseteq BOOLEAN

-----------------------------------------------------------------------------
(* crypto.Keyring *)

\* NewKeyringFrom, for the configuration of a stage.
Current(s) == IF s = 0 THEN "old" ELSE "new"
Keyring(s) == IF s = 1 THEN {"old", "new"} ELSE {Current(s)}
AcceptsUnbound(s) == s < 2

Encrypt(s, p, plain) == [key |-> Current(s), format |-> 2, place |-> p, plain |-> plain]

\* Decrypt and decryptLegacy succeed: a key of the ring wrote it, at this place.
Decryptable(s, p, c) ==
  /\ c.key \in Keyring(s)
  /\ IF c.format = 2 THEN c.place = p ELSE AcceptsUnbound(s)

\* Mutant: every value is rewritten, also one that is current already.
NeedsReencryptionAlways(s, c) == TRUE

NeedsReencryption(s, c) == c.format # 2 \/ c.key # Current(s)

-----------------------------------------------------------------------------
RotationInit ==
  /\ stage = [i \in Instances |-> 0]
  /\ \E formats \in [Fields -> 0 .. 2] :
       table = [i \in Ids |-> [f \in Fields |->
                 [key |-> "old", format |-> formats[f], plain |-> 0,
                  place |-> IF formats[f] = 2 THEN <<i, f>> ELSE NoPlace]]]
  /\ writes = 0 /\ failures = 0
  /\ pass = NoPass /\ done = FALSE

(* Requests *)

\* maybeDecrypt on instance n.
maybeDecrypt(n, p) == Decryptable(stage[n], p, table[p[1]][p[2]])

\* A request on instance n writes a column it did not have to read (tokenUpdate
\* at a callback, backup codes, an enrolment).
WriteCell(n, p) ==
  /\ writes < MaxWrites
  /\ table[p[1]] # NoRow
  /\ writes' = writes + 1
  /\ table' = [table EXCEPT ![p[1]][p[2]] = Encrypt(stage[n], p, writes')]
  /\ UNCHANGED <<stage, failures, pass, done>>

\* handleRefreshToken: the stored token is read, and replaced by id.
RefreshToken(n, p) ==
  /\ maybeDecrypt(n, p)
  /\ WriteCell(n, p)

\* A row is created with all its columns (linkOAuthAccount) or deleted.
InsertRow(n, i) ==
  /\ writes < MaxWrites
  /\ table[i] = NoRow
  /\ writes' = writes + 1
  /\ table' = [table EXCEPT ![i] = [f \in Fields |-> Encrypt(stage[n], <<i, f>>, writes')]]
  /\ UNCHANGED <<stage, failures, pass, done>>

DeleteRow(i) ==
  /\ writes < MaxWrites
  /\ table[i] # NoRow
  /\ writes' = writes + 1
  /\ table' = [table EXCEPT ![i] = NoRow]
  /\ UNCHANGED <<stage, failures, pass, done>>

-----------------------------------------------------------------------------
(* The operator *)

\* Instance n restarts with the next configuration.  The pass of the last
\* deploy is over; stage 2 takes a pass that was Done.
Deploy(n) ==
  /\ stage[n] < 2
  /\ \A m \in Instances : stage[m] >= stage[n]
  /\ stage[n] = 1 => done
  /\ ~pass.on
  /\ stage' = [stage EXCEPT ![n] = @ + 1]
  /\ UNCHANGED <<table, writes, failures, pass, done>>

\* ReencryptSecrets on an instance at stage 1, again until it is Done.
StartPass ==
  /\ \A n \in Instances : stage[n] = 1
  /\ ~pass.on /\ ~done
  /\ pass' = [NoPass EXCEPT !.on = TRUE]
  /\ UNCHANGED <<stage, table, writes, failures, done>>

\* The instance that runs the pass dies.
CrashPass ==
  /\ failures < MaxFailures
  /\ pass.on
  /\ failures' = failures + 1
  /\ pass' = NoPass
  /\ UNCHANGED <<stage, table, writes, done>>

-----------------------------------------------------------------------------
(* reencryptFields *)

\* The rows after the cursor, BatchSize of them in id order.
Page ==
  LET rest == {i \in Ids : i > pass.cursor /\ table[i] # NoRow}
  IN  {i \in rest : Cardinality({j \in rest : j < i}) < BatchSize}

\* Mutant: a page that is just full is taken for the last one.
ReadPageLastEarly ==
  /\ pass.on /\ pass.read = {} /\ pass.full
  /\ pass' = [pass EXCEPT
       !.read = {[place |-> p, value |-> table[p[1]][p[2]]] : p \in Page \X Fields},
       !.full = Cardinality(Page) > BatchSize,
       !.cursor = IF Page = {} THEN @ ELSE CHOOSE i \in Page : \A j \in Page : j <= i]
  /\ UNCHANGED <<stage, table, writes, failures, done>>

\* FindMany: the next page, and the cursor behind it.
ReadPage ==
  /\ pass.on /\ pass.read = {} /\ pass.full
  /\ pass' = [pass EXCEPT
       !.read = {[place |-> p, value |-> table[p[1]][p[2]]] : p \in Page \X Fields},
       !.full = Cardinality(Page) = BatchSize,
       !.cursor = IF Page = {} THEN @ ELSE CHOOSE i \in Page : \A j \in Page : j <= i]
  /\ UNCHANGED <<stage, table, writes, failures, done>>

\* FindMany fails: the pass ends with an error.
ReadPageFails ==
  /\ failures < MaxFailures
  /\ pass.on /\ pass.read = {} /\ pass.full
  /\ failures' = failures + 1
  /\ pass' = NoPass
  /\ UNCHANGED <<stage, table, writes, done>>

\* The cell of the page whose turn it is: by id, the columns in any order.
Turn == CHOOSE c \in pass.read : \A d \in pass.read : c.place[1] <= d.place[1]

CellAt(p) == table[p[1]][p[2]]

Processed(clean) == pass' = [pass EXCEPT !.read = @ \ {Turn}, !.clean = @ /\ clean]

\* reencryptField: nothing to do for the value that was read.
LeaveField ==
  /\ pass.read # {}
  /\ ~NeedsReencryption(1, Turn.value)
  /\ Processed(TRUE)
  /\ UNCHANGED <<stage, table, writes, failures, done>>

\* Mutant: the write back is keyed on the id alone.
ReencryptFieldBlind ==
  LET c == Turn IN
  /\ pass.read # {}
  /\ NeedsReencryption(1, c.value)
  /\ Processed(FALSE)
  /\ table' = IF table[c.place[1]] # NoRow
              THEN [table EXCEPT ![c.place[1]][c.place[2]] = Encrypt(1, c.place, c.value.plain)]
              ELSE table
  /\ UNCHANGED <<stage, writes, failures, done>>

\* Decrypt, Encrypt and a compare-and-set on the ciphertext that was read.
\* Whether it matched (Rewritten) or not (Skipped), whether the value could be
\* decrypted or not (Unreadable), the pass is not Done.
ReencryptField ==
  LET c == Turn IN
  /\ pass.read # {}
  /\ NeedsReencryption(1, c.value)
  /\ Processed(FALSE)
  /\ table' = IF Decryptable(1, c.place, c.value) /\ CellAt(c.place) = c.value
              THEN [table EXCEPT ![c.place[1]][c.place[2]] = Encrypt(1, c.place, c.value.plain)]
              ELSE table
  /\ UNCHANGED <<stage, writes, failures, done>>

\* The write back fails and is counted (Failed); the pass goes on.
ReencryptFieldFails ==
  /\ failures < MaxFailures
  /\ pass.read # {}
  /\ NeedsReencryption(1, Turn.value)
  /\ failures' = failures + 1
  /\ Processed(FALSE)
  /\ UNCHANGED <<stage, table, writes, done>>

\* The last page has been worked off: ReencryptResult.Done.
EndPass ==
  /\ pass.on /\ pass.read = {} /\ ~pass.full
  /\ done' = pass.clean
  /\ pass' = NoPass
  /\ UNCHANGED <<stage, table, writes, failures>>

-----------------------------------------------------------------------------
Pass == ReadPage \/ LeaveField \/ ReencryptField \/ EndPass

RotationNext ==
  \/ \E n \in Instances : \/ Deploy(n)
                          \/ \E p \in Place : WriteCell(n, p) \/ RefreshToken(n, p)
                          \/ \E i \in Ids : InsertRow(n, i)
  \/ \E i \in Ids : DeleteRow(i)
  \/ StartPass \/ CrashPass \/ Pass \/ ReadPageFails \/ ReencryptFieldFails

\* The deploy of stage 1 goes through, a pass under way goes on, and the
\* operator runs it again as long as it is not Done.
Fairness ==
  /\ \A n \in Instances : WF_rotationVars(Deploy(n))
  /\ WF_rotationVars(StartPass) /\ WF_rotationVars(Pass)

RotationSpec == RotationInit /\ [][RotationNext]_rotationVars /\ Fairness

-----------------------------------------------------------------------------
(* Properties *)

\* "Both the old and the new key are readable throughout", and "when a pass
\* reports Done, nothing is left under an old key or in an unbound format":
\* every instance that has left stage 0 can read every stored value, at any
\* point of the deploys, the passes, their crashes and the writes beside them.
NothingStranded ==
  \A n \in Instances, p \in Place :
    stage[n] >= 1 /\ table[p[1]] # NoRow => maybeDecrypt(n, p)

\* "A concurrent write is never reverted": only a request's own write changes
\* what a column says; the pass changes how it is encrypted.
NeverReverted ==
  [][writes' = writes => \A p \in Place :
       CellAt(p) # NoCell /\ CellAt(p)' # NoCell => CellAt(p)'.plain = CellAt(p).plain]_rotationVars

\* "A helper that reports how much is left": repeated passes come to report
\* Done although requests keep writing, as each value needs rewriting once.
RotationCompletes == <>done
=============================================================================
