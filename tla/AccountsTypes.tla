---------------------------- MODULE AccountsTypes ----------------------------
(***************************************************************************)
(* TLAPS proofs about Accounts, for every value of its constants: type     *)
(* correctness, what tasks and closures refer to, and the spinners.  The   *)
(* tables of what starts a task (Starts), posts a closure (Posts), ends a  *)
(* task (Runs) and writes each part of the state are what every later      *)
(* proof is read off, instead of the forty actions.                        *)
(***************************************************************************)
EXTENDS Accounts, FiniteSetTheorems, TLAPS

USE AccountsConstantsOK
-----------------------------------------------------------------------------
(* What type correctness rests on.                                         *)

(* What the records of tasks and closures refer to exists.                 *)
Inside == {"booting", "ready", "failed"}
Refers ==
  /\ \A i \in DOMAIN uiq :
       uiq[i].kind \in {"loggedIn", "booted"} => uiq[i].obj \in DOMAIN mem
  /\ \A t \in Kinds({"add"}) : t.merge \in 0..Len(tallies)
  /\ \/ screen \in Inside \/ Kinds({"boot", "import", "add"}) # {}
     \/ Posted({"booted", "bootFailed", "added"})
     => cell # 0

(* Each merge has as many accounts left as it has tasks.                   *)
AddOf(k, a) == [kind |-> "add", acc |-> a, merge |-> k]
Waiting(k)  == {a \in Accounts : AddOf(k, a) \in tasks}
Tallied ==
  \A k \in DOMAIN tallies : tallies[k].left = Cardinality(Waiting(k))
-----------------------------------------------------------------------------
(* The pieces of the model.                                                *)

(* A task of a kind has the fields of that kind.                           *)
LEMMA TaskFields ==
  ASSUME TypeOK, NEW t \in tasks
  PROVE  /\ t.kind = "create" => t.acc \in Accounts /\ t.pw \in Passwords
         /\ t.kind = "seal" => t.acc \in Accounts
         /\ t.kind \in {"open", "check", "unpack", "readKeys", "restore"} =>
              t.pw \in Passwords
         /\ t.kind \in {"boot", "import"} =>
              /\ t.acc \in Accounts /\ t.hint \in Accounts \cup {None}
              /\ t = [kind |-> t.kind, acc |-> t.acc, obj |-> t.obj,
                      hint |-> t.hint]
         /\ t.kind \in {"sync", "heal"} =>
              /\ t.acc \in Accounts /\ t.start \in BOOLEAN
              /\ t = [kind |-> t.kind, acc |-> t.acc, obj |-> t.obj,
                      start |-> t.start]
         /\ t.kind = "write" =>
              t.key \in {"backup", "active"} /\ t.acc \in Accounts
         /\ t.kind = "add" =>
              /\ t.acc \in Accounts /\ t.merge \in Nat
              /\ t = [kind |-> "add", acc |-> t.acc, merge |-> t.merge]
         /\ t.kind = "backup" =>
              /\ t.left \subseteq {"vault", "home"}
              /\ t.got \in [pw : Passwords, vault : Vault, home : SUBSET Accounts]
              /\ t = [kind |-> "backup", left |-> t.left, got |-> t.got]
         /\ t.kind = "restore" =>
              /\ t.todo \in {<<"vault", "home">>, <<"home", "vault">>, <<"home">>,
                             <<"vault">>, <<>>}
              /\ t = [kind |-> "restore", pw |-> t.pw, todo |-> t.todo]
         /\ t.kind \in {"seal", "boot", "import", "sync", "heal", "write"} =>
              t.obj \in DOMAIN mem /\ t.obj \in Nat
BY DEF TypeOK, Works, Task, Kinds

(* The head of the queue is a closure; its fields are those of its kind.   *)
LEMMA HeadFields ==
  ASSUME TypeOK, uiq # <<>>, NEW c, c = Head(uiq)
  PROVE  /\ 1 \in DOMAIN uiq /\ c = uiq[1] /\ Tail(uiq) \in Seq(Closure)
         /\ c.kind = "loggedIn" =>
              c.acc \in Accounts /\ c.hint \in Accounts \cup {None} /\ c.obj \in Nat
         /\ c.kind = "booted" =>
              c.acc \in Accounts /\ c.active \in Accounts /\ c.obj \in Nat
         /\ c.kind = "added" => c.acc \in Accounts /\ c.ok \in BOOLEAN
         /\ c.kind = "restored" => c.pw \in Passwords
         /\ c.kind = "merge" => c.nsecs \in SUBSET Accounts
<1>1. c \in Closure
  BY DEF TypeOK, Works
<1>2. QED
  BY <1>1 DEF TypeOK, Works, Closure

(* Setting a key of a vault, or dropping its secrets, leaves a vault.      *)
LEMMA VaultOps ==
  /\ NoVault \in Vault
  /\ \A pw \in Passwords : Empty(pw) \in Vault /\ Empty(pw) # NoVault
  /\ \A v \in Vault, acc \in Accounts, key \in {"nsec", "active", "backup", "secret"} :
       With(v, key, acc) \in Vault
  /\ \A v \in Vault : [v EXCEPT !.secrets = {}] \in Vault
BY DEF Vault, With, NoVault, Empty

(* What With changes of a vault.                                           *)
Record(pw, nsec, act, backups, secrets) ==
  [pw |-> pw, nsec |-> nsec, active |-> act, backups |-> backups,
   secrets |-> secrets]
(* Each key has a field of its own.                                        *)
LEMMA VaultFields ==
  ASSUME NEW v \in Vault, NEW acc \in Accounts
  PROVE  /\ With(v, "nsec", acc) =
              Record(v.pw, acc, v.active, v.backups, v.secrets)
         /\ With(v, "active", acc) =
              Record(v.pw, v.nsec, acc, v.backups, v.secrets)
         /\ With(v, "backup", acc) =
              Record(v.pw, v.nsec, v.active, v.backups \cup {acc}, v.secrets)
         /\ With(v, "secret", acc) =
              Record(v.pw, v.nsec, v.active, v.backups, v.secrets \cup {acc})
<1>1. v = Record(v.pw, v.nsec, v.active, v.backups, v.secrets)
  BY DEF Vault, Record
<1>2. With(v, "nsec", acc) = Record(v.pw, acc, v.active, v.backups, v.secrets)
  BY <1>1 DEF With, Vault, Record
<1>3. With(v, "active", acc) = Record(v.pw, v.nsec, acc, v.backups, v.secrets)
  BY <1>1 DEF With, Vault, Record
<1>4. With(v, "backup", acc) =
        Record(v.pw, v.nsec, v.active, v.backups \cup {acc}, v.secrets)
  BY <1>1 DEF With, Vault, Record
<1>5. With(v, "secret", acc) =
        Record(v.pw, v.nsec, v.active, v.backups, v.secrets \cup {acc})
  BY <1>1 DEF With, Vault, Record
<1>6. QED
  BY <1>2, <1>3, <1>4, <1>5

(* Storing a vault in an object changes that one only.                     *)
LEMMA PutObject ==
  ASSUME TypeOK, NEW obj \in DOMAIN mem, NEW v \in Vault,
         mem' = [mem EXCEPT ![obj] = v]
  PROVE  /\ mem' \in Seq(Vault) /\ Len(mem') = Len(mem)
         /\ DOMAIN mem' = DOMAIN mem /\ mem'[obj] = v
         /\ \A i \in DOMAIN mem : i # obj => mem'[i] = mem[i]
BY DEF TypeOK, Works

(* Opening a vault adds an object.                                         *)
LEMMA NewObject ==
  ASSUME TypeOK, NEW v \in Vault, mem' = Append(mem, v)
  PROVE  /\ mem' \in Seq(Vault) /\ Len(mem') = Len(mem) + 1 /\ Len(mem) \in Nat
         /\ Len(mem) + 1 \in DOMAIN mem' /\ Len(mem) + 1 \notin DOMAIN mem
         /\ mem'[Len(mem) + 1] = v
         /\ \A i \in DOMAIN mem : i \in DOMAIN mem' /\ mem'[i] = mem[i]
BY DEF TypeOK, Works

(* Vault::persist, and a write that cannot fail.                           *)
LEMMA PersistTypes ==
  ASSUME TypeOK, NEW obj \in DOMAIN mem, NEW v \in Vault,
         Persist(obj, v) \/ Sealed(obj, v)
  PROVE  /\ mem' \in Seq(Vault) /\ Len(mem') = Len(mem)
         /\ DOMAIN mem' = DOMAIN mem /\ mem'[obj] = v
         /\ \A i \in DOMAIN mem : i # obj => mem'[i] = mem[i]
         /\ file' \in Vault /\ file' \in {file, v}
<1>1. mem' = [mem EXCEPT ![obj] = v] /\ file' \in {file, v}
  BY DEF Persist, Sealed
<1>2. QED
  BY <1>1, PutObject DEF TypeOK, Stored

(* The registration of an account.                                         *)
LEMMA RegisterTypes ==
  ASSUME TypeOK, NEW obj \in DOMAIN mem, NEW acc \in Accounts, Register(acc, obj)
  PROVE  /\ mem[obj] \in Vault /\ mem' \in Seq(Vault) /\ Len(mem') = Len(mem)
         /\ DOMAIN mem' = DOMAIN mem /\ file' = mem'[obj] /\ file' \in Vault
         /\ \A i \in DOMAIN mem : i # obj => mem'[i] = mem[i]
         /\ file' = Record(mem[obj].pw, mem[obj].nsec, mem[obj].active,
                           mem[obj].backups, mem[obj].secrets \cup {acc})
         /\ home' = home \cup {acc} /\ home' \subseteq Accounts
         /\ orphans' = orphans \ {acc} /\ orphans' \subseteq Accounts
<1>1. mem[obj] \in Vault
  BY DEF TypeOK, Works
<1>2. With(mem[obj], "secret", acc) \in Vault
  BY <1>1, VaultOps
<1>3. Sealed(obj, With(mem[obj], "secret", acc)) /\ home' = home \cup {acc}
      /\ orphans' = orphans \ {acc}
  BY DEF Register
<1>4. file' = With(mem[obj], "secret", acc) /\ file' \in Vault
  BY <1>2, <1>3 DEF Sealed
<1>5. file' = mem'[obj] /\ mem' \in Seq(Vault) /\ Len(mem') = Len(mem)
      /\ DOMAIN mem' = DOMAIN mem
      /\ \A i \in DOMAIN mem : i # obj => mem'[i] = mem[i]
  BY <1>2, <1>3, <1>4, PersistTypes
<1>6. file' = Record(mem[obj].pw, mem[obj].nsec, mem[obj].active,
                     mem[obj].backups, mem[obj].secrets \cup {acc})
  BY <1>1, <1>4, VaultFields
<1>7. home' \subseteq Accounts /\ orphans' \subseteq Accounts
  BY <1>3 DEF TypeOK, Stored
<1>8. QED
  BY <1>1, <1>3, <1>4, <1>5, <1>6, <1>7

(* A failed start: every account, secret and self-chat is gone.            *)
LEMMA WipeTypes ==
  ASSUME TypeOK, NEW obj \in DOMAIN mem, Wipe(obj)
  PROVE  /\ mem[obj] \in Vault /\ mem' \in Seq(Vault) /\ Len(mem') = Len(mem)
         /\ DOMAIN mem' = DOMAIN mem /\ file' = mem'[obj] /\ file' \in Vault
         /\ \A i \in DOMAIN mem : i # obj => mem'[i] = mem[i]
         /\ file' = Record(mem[obj].pw, mem[obj].nsec, mem[obj].active,
                           mem[obj].backups, {})
         /\ home' = {} /\ orphans' = {} /\ selfChats' = [a \in Accounts |-> 0]
         /\ selfChats' \in [Accounts -> Nat]
<1>1. mem[obj] \in Vault
  BY DEF TypeOK, Works
<1>2. [mem[obj] EXCEPT !.secrets = {}] \in Vault
  BY <1>1, VaultOps
<1>3. Sealed(obj, [mem[obj] EXCEPT !.secrets = {}]) /\ home' = {} /\ orphans' = {}
      /\ selfChats' = [a \in Accounts |-> 0]
  BY DEF Wipe
<1>4. file' = [mem[obj] EXCEPT !.secrets = {}]
  BY <1>3 DEF Sealed
<1>5. file' = mem'[obj]
  BY <1>2, <1>3, <1>4, PersistTypes
<1>6. file' = Record(mem[obj].pw, mem[obj].nsec, mem[obj].active,
                     mem[obj].backups, {})
  BY <1>1, <1>4 DEF Vault, Record
<1>7. QED
  BY <1>1, <1>2, <1>3, <1>4, <1>5, <1>6, PersistTypes

(* A step of the queue of closures: it moves by one or not at all, but for *)
(* what is posted.                                                         *)
LEMMA Posting ==
  ASSUME TypeOK, NEW c, Post(c)
  PROVE  /\ Len(uiq) \in Nat /\ Len(uiq) + 1 \in DOMAIN uiq'
         /\ Len(uiq) + 1 \notin DOMAIN uiq
         /\ uiq'[Len(uiq) + 1] = c
         /\ \A i \in DOMAIN uiq : i \in DOMAIN uiq' /\ uiq'[i] = uiq[i]
         /\ \A i \in DOMAIN uiq' : i \in DOMAIN uiq \/ i = Len(uiq) + 1
         /\ c \in Closure => uiq' \in Seq(Closure)
BY DEF TypeOK, Works, Post

(* The event loop takes the first closure; the others move up.             *)
LEMMA Taking ==
  ASSUME TypeOK, uiq # <<>>, uiq' = Tail(uiq)
  PROVE  /\ 1 \in DOMAIN uiq /\ Head(uiq) = uiq[1]
         /\ \A i \in DOMAIN uiq' :
              i + 1 \in DOMAIN uiq /\ i + 1 # 1 /\ i \in Nat /\ uiq'[i] = uiq[i + 1]
         /\ \A i \in DOMAIN uiq : i # 1 => i - 1 \in DOMAIN uiq' /\ uiq'[i - 1] = uiq[i]
         /\ Len(uiq) \in Nat /\ Len(uiq') = Len(uiq) - 1
BY DEF TypeOK, Works

(* Budgets stay natural numbers.                                           *)
LEMMA Spending ==
  ASSUME TypeOK
  PROVE  /\ \A o : Spend(o) => used' \in [Limited -> Nat]
         /\ Free => used' = used
<1>1. ASSUME NEW o, Spend(o) PROVE used' \in [Limited -> Nat]
  <2>1. used' = [used EXCEPT ![o] = used[o] + 1] /\ used \in [Limited -> Nat]
    BY <1>1 DEF Spend, TypeOK, Shows
  <2>2. CASE o \in Limited
    BY <2>1, <2>2
  <2>3. CASE o \notin Limited
    BY <2>1, <2>3
  <2>4. QED
    BY <2>2, <2>3
<1>2. QED
  BY <1>1 DEF Free
-----------------------------------------------------------------------------
(* Type correctness.                                                       *)

(* Only these write the disk.                                              *)
LEMMA DiskWriters ==
  ASSUME Next
  PROVE  \/ UNCHANGED <<file, home, selfChats, archive, bare, orphans>>
         \/ Reset
         \/ \E t \in tasks :
              \/ CreateVault(t) \/ SealKey(t) \/ BootPresent(t) \/ BootStart(t)
              \/ BootImport(t) \/ SyncStart(t) \/ SyncHeal(t) \/ WriteVault(t)
              \/ MakeSelf(t) \/ AddLogin(t) \/ FinishBackup(t) \/ RestoreFile(t)
              \/ FinishRestore(t)
<1> USE DEF disk, saved, history
<1>1. User => UNCHANGED <<file, home, selfChats, archive, bare, orphans>> \/ Reset
  BY DEF User, LoginWithNsec, Unlock, CreateBackup, SubmitImport, Switch, AddAccount,
         OpenImport, DismissImport, Exit
<1>2. RunClosure => UNCHANGED <<file, home, selfChats, archive, bare, orphans>>
  BY DEF RunClosure, RunLoginFailed, RunLoggedIn, RunBootFailed, RunBooted, RunAdded,
         RunBackedUp, RunRestored, RunMerge, RunImportEnded, RunImportDone
<1>3. ASSUME NEW t \in tasks,
             \/ OpenVault(t) \/ FindSelf(t) \/ CheckPassword(t)
             \/ ReadFile(t, "vault") \/ ReadFile(t, "home") \/ UnpackArchive(t)
             \/ ReadKeys(t)
      PROVE  UNCHANGED <<file, home, selfChats, archive, bare, orphans>>
  BY <1>3 DEF OpenVault, FindSelf, CheckPassword, ReadFile, UnpackArchive, ReadKeys
<1>4. QED
  BY <1>1, <1>2, <1>3 DEF Next, Worker

(* The vault, marmot's databases and the archive keep their types.         *)
LEMMA StoredTypes == TypeOK /\ Refers /\ Next => Stored'
<1> SUFFICES ASSUME TypeOK, Refers, Next PROVE Stored'
  OBVIOUS
<1> USE DEF disk, saved, history
<1>1. CASE UNCHANGED <<file, home, selfChats, archive, bare, orphans>>
  BY <1>1 DEF TypeOK, Stored
<1>2. CASE Reset
  BY <1>2, VaultOps DEF TypeOK, Stored, Reset
<1>3. ASSUME NEW t \in tasks, CreateVault(t) PROVE Stored'
  BY <1>3, TaskFields, VaultOps DEF TypeOK, Stored, CreateVault, Kinds
<1>4. ASSUME NEW t \in tasks, SealKey(t) PROVE Stored'
  <2>1. t.obj \in DOMAIN mem /\ t.acc \in Accounts
    BY <1>4, TaskFields DEF SealKey, Kinds
  <2>2. file' \in Vault
    BY <1>4, <2>1, PersistTypes, VaultOps DEF SealKey, TypeOK, Works
  <2>3. QED
    BY <1>4, <2>2 DEF TypeOK, Stored, SealKey
<1>5. ASSUME NEW t \in tasks, BootPresent(t) PROVE Stored'
  <2>1. selfChats' \in [Accounts -> Nat]
    BY <1>5 DEF BootPresent, BootReady, TypeOK, Stored
  <2>2. QED
    BY <1>5, <2>1 DEF TypeOK, Stored, BootPresent
<1>6. ASSUME NEW t \in tasks, BootStart(t) PROVE Stored'
  BY <1>6, TaskFields, WipeTypes DEF TypeOK, Stored, BootStart, Kinds
<1>7. ASSUME NEW t \in tasks, BootImport(t) PROVE Stored'
  <2>1. selfChats' \in [Accounts -> Nat]
    BY <1>7 DEF BootImport, BootReady, TypeOK, Stored
  <2>2. QED
    BY <1>7, <2>1, TaskFields, RegisterTypes DEF TypeOK, Stored, BootImport, Kinds
<1>8. ASSUME NEW t \in tasks, SyncStart(t) PROVE Stored'
  BY <1>8, TaskFields, WipeTypes DEF TypeOK, Stored, SyncStart, Kinds
<1>9. ASSUME NEW t \in tasks, SyncHeal(t) PROVE Stored'
  BY <1>9, TaskFields, RegisterTypes DEF TypeOK, Stored, SyncHeal, Reimported, Kinds
<1>10. ASSUME NEW t \in tasks, WriteVault(t) PROVE Stored'
  <2>1. t.obj \in DOMAIN mem /\ t.acc \in Accounts /\ t.key \in {"backup", "active"}
    BY <1>10, TaskFields DEF WriteVault, Kinds
  <2>2. file' \in Vault
    BY <1>10, <2>1, PersistTypes, VaultOps DEF WriteVault, TypeOK, Works
  <2>3. QED
    BY <1>10, <2>2 DEF TypeOK, Stored, WriteVault
<1>11. ASSUME NEW t \in tasks, MakeSelf(t) PROVE Stored'
  BY <1>11 DEF TypeOK, Stored, MakeSelf
<1>12. ASSUME NEW t \in tasks, AddLogin(t) PROVE Stored'
  <2>1. t.acc \in Accounts /\ cell \in DOMAIN mem
    BY <1>12, TaskFields DEF AddLogin, Kinds, Refers, TypeOK, Works
  <2>2. QED
    BY <1>12, <2>1, RegisterTypes DEF TypeOK, Stored, AddLogin
<1>17. ASSUME NEW t \in tasks, FinishBackup(t) PROVE Stored'
  BY <1>17, TaskFields DEF TypeOK, Stored, FinishBackup, Kinds
<1>14. ASSUME NEW t \in tasks, RestoreFile(t) PROVE Stored'
  BY <1>14 DEF TypeOK, Stored, RestoreFile
<1>15. ASSUME NEW t \in tasks, FinishRestore(t) PROVE Stored'
  BY <1>15 DEF TypeOK, Stored, FinishRestore
<1>16. QED
  BY <1>1, <1>2, <1>3, <1>4, <1>5, <1>6, <1>7, <1>8, <1>9, <1>10, <1>11, <1>12,
     <1>17, <1>14, <1>15, DiskWriters

(* Only these change the screen, the active account or the tallies.        *)
LEMMA ShowWriters ==
  ASSUME Next
  PROVE  \/ UNCHANGED <<screen, modal, active, primary, tallies>>
         \/ Reset \/ OpenImport \/ DismissImport \/ Exit
         \/ \E a \in Accounts : Switch(a)
         \/ \E t \in tasks : AddLogin(t)
         \/ RunLoggedIn \/ RunBootFailed \/ RunBooted \/ RunAdded \/ RunRestored
         \/ RunMerge \/ RunImportDone
<1> USE DEF session, dialogs
<1>1. User => \/ UNCHANGED <<screen, modal, active, primary, tallies>>
              \/ Reset \/ OpenImport \/ DismissImport \/ Exit
              \/ \E a \in Accounts : Switch(a)
  BY DEF User, LoginWithNsec, Unlock, CreateBackup, SubmitImport, AddAccount
<1>2. RunClosure => \/ UNCHANGED <<screen, modal, active, primary, tallies>>
                    \/ RunLoggedIn \/ RunBootFailed \/ RunBooted \/ RunAdded
                    \/ RunRestored \/ RunMerge \/ RunImportDone
  BY DEF RunClosure, RunLoginFailed, RunBackedUp, RunImportEnded
<1>3. Worker => \/ UNCHANGED <<screen, modal, active, primary, tallies>>
                \/ \E t \in tasks : AddLogin(t)
  BY DEF Worker, CreateVault, SealKey, OpenVault, BootPresent, BootStart, BootImport,
         SyncStart, SyncHeal, WriteVault, FindSelf, MakeSelf, CheckPassword, ReadFile,
         FinishBackup, UnpackArchive, RestoreFile, FinishRestore, ReadKeys
<1>4. QED
  BY <1>1, <1>2, <1>3 DEF Next

(* Every budget that is spent is a natural number again.                   *)
LEMMA UsedTypes == TypeOK /\ Next => used' \in [Limited -> Nat]
<1> SUFFICES ASSUME TypeOK, Next PROVE used' = used \/ \E o : Spend(o)
  BY Spending DEF TypeOK, Shows
<1> USE DEF Free, Persist
<1>1. User => used' = used \/ \E o : Spend(o)
  BY DEF User, LoginWithNsec, Unlock, CreateBackup, SubmitImport, AddAccount, Switch,
         Reset, OpenImport, DismissImport, Exit
<1>2. RunClosure => used' = used
  BY DEF RunClosure, RunLoginFailed, RunBackedUp, RunImportEnded, RunLoggedIn,
         RunBootFailed, RunBooted, RunAdded, RunRestored, RunMerge, RunImportDone
<1>3. Worker => used' = used \/ \E o : Spend(o)
  BY DEF Worker, CreateVault, SealKey, OpenVault, BootPresent, BootStart, BootImport,
         SyncStart, SyncHeal, WriteVault, FindSelf, MakeSelf, CheckPassword, ReadFile,
         FinishBackup, UnpackArchive, RestoreFile, FinishRestore, ReadKeys, AddLogin
<1>4. QED
  BY <1>1, <1>2, <1>3 DEF Next

(* A completion of a merge leaves one account less to wait for, and a task *)
(* that has not completed is counted.                                      *)
LEMMA TallyTypes ==
  ASSUME TypeOK, Refers, Tallied, NEW t \in tasks, NEW ok \in BOOLEAN,
         t.kind = "add", t.merge # 0
  PROVE  /\ t.merge \in DOMAIN tallies
         /\ tallies[t.merge].left \in 1..Cardinality(Accounts)
         /\ tallies[t.merge].ok \in BOOLEAN
         /\ Tally(tallies[t.merge], ok) =
              [left |-> tallies[t.merge].left - 1, ok |-> tallies[t.merge].ok /\ ok]
         /\ [tallies EXCEPT ![t.merge] = Tally(tallies[t.merge], ok)]
              \in Seq([left : 0..Cardinality(Accounts), ok : BOOLEAN])
<1> DEFINE k == t.merge
           Left == [left : 0..Cardinality(Accounts), ok : BOOLEAN]
<1>1. t.acc \in Accounts /\ t = AddOf(k, t.acc)
  BY TaskFields DEF AddOf
<1>2. k \in DOMAIN tallies /\ tallies[k] \in Left
  <2>1. tallies \in Seq(Left) /\ k \in 0..Len(tallies)
    BY DEF Refers, Kinds, TypeOK, Shows
  <2> HIDE DEF Left
  <2>2. QED
    BY <2>1
<1>3. t.acc \in Waiting(k) /\ Waiting(k) \subseteq Accounts
  BY <1>1 DEF Waiting
<1>4. IsFiniteSet(Waiting(k)) /\ Cardinality(Waiting(k)) \in Nat
  BY <1>3, FS_Subset, FS_CardinalityType
<1>5. Cardinality(Waiting(k)) # 0
  BY <1>3, <1>4, FS_EmptySet
<1>6. tallies[k].left \in 1..Cardinality(Accounts) /\ Cardinality(Accounts) \in Nat
  <2>1. tallies[k].left = Cardinality(Waiting(k)) /\ tallies[k].left \in 0..Cardinality(Accounts)
    BY <1>2 DEF Tallied
  <2>2. QED
    BY <1>4, <1>5, <2>1, FS_CardinalityType
<1>7. tallies[k].ok \in BOOLEAN /\ (tallies[k].ok /\ ok) \in BOOLEAN
  BY <1>2
<1>8. Tally(tallies[k], ok) = [left |-> tallies[k].left - 1, ok |-> tallies[k].ok /\ ok]
  BY DEF Tally
<1>9. Tally(tallies[k], ok) \in Left
  <2>1. tallies[k].left - 1 \in 0..Cardinality(Accounts)
    BY <1>6
  <2>2. QED
    BY <1>7, <1>8, <2>1
<1>10. tallies \in Seq(Left)
  BY DEF TypeOK, Shows
<1>11. [tallies EXCEPT ![k] = Tally(tallies[k], ok)] \in Seq(Left)
  <2> HIDE DEF k, Left
  <2>1. QED
    BY <1>2, <1>9, <1>10
<1>12. QED
  BY <1>2, <1>6, <1>7, <1>8, <1>11

(* The completion of an added account posts its closures and its record.   *)
LEMMA AddDoneTypes ==
  ASSUME TypeOK, Refers, Tallied, NEW t \in tasks, t.kind = "add", NEW ok \in BOOLEAN,
         AddDone(t, ok)
  PROVE  tallies' \in Seq([left : 0..Cardinality(Accounts), ok : BOOLEAN])
<1>1. CASE t.merge = 0
  BY <1>1 DEF AddDone, TypeOK, Shows
<1>2. CASE t.merge # 0
  BY <1>2, TallyTypes DEF AddDone
<1>3. QED
  BY <1>1, <1>2

(* The accounts a merge adds are counted.                                  *)
LEMMA MergeTypes ==
  ASSUME TypeOK, uiq # <<>>, Head(uiq).kind = "merge"
  PROVE  /\ Head(uiq).nsecs \ home \subseteq Accounts
         /\ IsFiniteSet(Head(uiq).nsecs \ home)
         /\ Cardinality(Head(uiq).nsecs \ home) \in 0..Cardinality(Accounts)
<1> DEFINE new == Head(uiq).nsecs \ home
<1>1. new \subseteq Accounts
  BY HeadFields
<1>2. IsFiniteSet(new) /\ Cardinality(new) <= Cardinality(Accounts)
  BY <1>1, FS_Subset
<1>3. Cardinality(new) \in Nat /\ Cardinality(Accounts) \in Nat
  BY <1>2, FS_CardinalityType
<1>4. QED
  BY <1>1, <1>2, <1>3

(* The screen, the accounts shown and the tallies keep their types.        *)
LEMMA ShowsTypes == TypeOK /\ Refers /\ Tallied /\ Next => Shows'
<1> SUFFICES ASSUME TypeOK, Refers, Tallied, Next,
                    \lnot UNCHANGED <<screen, modal, active, primary, tallies>>
             PROVE  /\ screen' \in {"choose", "unlock", "booting", "ready", "failed"}
                    /\ modal' \in {"closed", "merge", "restore"}
                    /\ active' \in Accounts \cup {None} /\ primary' \in Accounts \cup {None}
                    /\ tallies' \in Seq([left : 0..Cardinality(Accounts), ok : BOOLEAN])
  BY UsedTypes DEF TypeOK, Shows
<1> USE DEF TypeOK, Shows, dialogs, session
<1>1. CASE Reset \/ OpenImport \/ DismissImport
  BY <1>1 DEF Reset, OpenImport, DismissImport
<1>2. CASE Exit
  BY <1>2 DEF Exit
<1>3. ASSUME NEW a \in Accounts, Switch(a) PROVE Shows'
  BY <1>3, UsedTypes DEF Switch, SwitchTo
<1>4. ASSUME NEW t \in tasks, AddLogin(t) PROVE Shows'
  BY <1>4, UsedTypes, AddDoneTypes DEF AddLogin, Kinds
<1>5. CASE RunLoggedIn \/ RunBootFailed \/ RunRestored
  BY <1>5 DEF RunLoggedIn, RunBootFailed, RunRestored
<1>6. CASE RunBooted
  BY <1>6, HeadFields DEF RunBooted
<1>7. CASE RunAdded
  BY <1>7, HeadFields DEF RunAdded, SwitchTo
<1>8. CASE RunMerge
  <2>1. ASSUME NEW n \in 0..Cardinality(Accounts)
        PROVE  Append(tallies, [left |-> n, ok |-> TRUE])
                 \in Seq([left : 0..Cardinality(Accounts), ok : BOOLEAN])
    <3>1. [left |-> n, ok |-> TRUE] \in [left : 0..Cardinality(Accounts), ok : BOOLEAN]
      OBVIOUS
    <3>2. QED
      BY <3>1
  <2>2. QED
    BY <1>8, <2>1, MergeTypes DEF RunMerge
<1>9. CASE RunImportDone
  BY <1>9 DEF RunImportDone
<1>10. QED
  BY <1>1, <1>3, <1>4, <1>5, <1>6, <1>7, <1>8, <1>9, <1>2, ShowWriters

(* Flags are Boolean.                                                      *)
LEMMA FlagsTypes == TypeOK /\ Next => Flags'
<1> SUFFICES ASSUME Flags, Next PROVE Flags'
  BY DEF TypeOK
<1> USE DEF dialogs, history, NoteChange
<1>1. CASE User
  <2>1. ASSUME NEW pw \in Passwords,
               \/ \E a \in Accounts : LoginWithNsec(a, pw)
               \/ Unlock(pw) \/ CreateBackup(pw) \/ SubmitImport(pw)
        PROVE  Flags'
    BY <2>1, Zenon DEF Flags, LoginWithNsec, Unlock, CreateBackup, SubmitImport
  <2>2. ASSUME NEW a \in Accounts, Switch(a) \/ AddAccount(a) PROVE Flags'
    BY <2>2, Zenon DEF Flags, Switch, SwitchTo, AddAccount
  <2>3. CASE Reset \/ OpenImport \/ DismissImport \/ Exit
    BY <2>3, Zenon DEF Flags, Reset, OpenImport, DismissImport, Exit
  <2>4. QED
    BY <1>1, <2>1, <2>2, <2>3 DEF User
<1>2. CASE RunClosure
  <2>1. CASE RunLoginFailed \/ RunLoggedIn \/ RunBootFailed \/ RunBackedUp
    BY <2>1, Zenon DEF Flags, RunLoginFailed, RunLoggedIn, RunBootFailed, RunBackedUp
  <2>2. CASE RunBooted \/ RunAdded
    BY <2>2, Zenon DEF Flags, SwitchTo, RunBooted, RunAdded
  <2>3. CASE RunRestored \/ RunImportEnded \/ RunImportDone
    BY <2>3, Zenon DEF Flags, RunRestored, RunImportEnded, RunImportDone
  <2>4. CASE RunMerge
    BY <2>4, Zenon DEF Flags, RunMerge
  <2>5. QED
    BY <1>2, <2>1, <2>2, <2>3, <2>4 DEF RunClosure
<1>3. ASSUME NEW t \in tasks,
             \/ CreateVault(t) \/ OpenVault(t) \/ BootPresent(t) \/ FindSelf(t)
             \/ MakeSelf(t) \/ ReadKeys(t) \/ ReadFile(t, "vault")
             \/ ReadFile(t, "home") \/ FinishBackup(t) \/ UnpackArchive(t)
             \/ FinishRestore(t)
      PROVE  UNCHANGED <<dialogs, cut, raced, failed, strayed, torn, behind>>
  BY <1>3
     DEF CreateVault, OpenVault, BootPresent, FindSelf, MakeSelf, ReadKeys, ReadFile,
         FinishBackup, UnpackArchive, FinishRestore
<1>4. ASSUME NEW t \in tasks, SealKey(t) \/ WriteVault(t) PROVE Flags'
  BY <1>4, Zenon DEF Flags, SealKey, WriteVault
<1>5. ASSUME NEW t \in tasks, CheckPassword(t) PROVE Flags'
  BY <1>5, Zenon DEF Flags, CheckPassword
<1>6. ASSUME NEW t \in tasks, RestoreFile(t) PROVE Flags'
  BY <1>6, Zenon DEF Flags, RestoreFile
<1>7. CASE UNCHANGED <<dialogs, cut, raced, failed, strayed, torn, behind>>
  BY <1>7, Zenon DEF Flags
<1>8. ASSUME NEW t \in tasks,
             \/ BootStart(t) \/ BootImport(t) \/ SyncStart(t) \/ SyncHeal(t)
             \/ AddLogin(t)
      PROVE  Flags'
  BY <1>8, Zenon
     DEF Flags, Wipe, Register, BootStart, BootImport, SyncStart, SyncHeal, AddLogin
<1>9. QED
  BY <1>1, <1>2, <1>3, <1>8, <1>4, <1>5, <1>6, <1>7 DEF Next, Worker

(* Only these write an object in memory or change the session's.           *)
LEMMA ObjectWriters ==
  ASSUME Next
  PROVE  \/ UNCHANGED <<mem, cell>>
         \/ RunLoggedIn \/ Exit
         \/ \E t \in tasks :
              \/ CreateVault(t) \/ OpenVault(t) \/ SealKey(t) \/ WriteVault(t)
              \/ BootStart(t) \/ BootImport(t) \/ SyncStart(t) \/ SyncHeal(t)
              \/ AddLogin(t)
<1> USE DEF session
<1>1. User => UNCHANGED <<mem, cell>> \/ Exit
  BY DEF User, LoginWithNsec, Unlock, CreateBackup, SubmitImport, Switch, AddAccount,
         OpenImport, DismissImport, Reset
<1>2. RunClosure => UNCHANGED <<mem, cell>> \/ RunLoggedIn
  BY DEF RunClosure, RunLoginFailed, RunBootFailed, RunBooted, RunAdded, RunBackedUp,
         RunRestored, RunMerge, RunImportEnded, RunImportDone
<1>3. ASSUME NEW t \in tasks,
             \/ BootPresent(t) \/ FindSelf(t) \/ MakeSelf(t) \/ CheckPassword(t)
             \/ ReadFile(t, "vault") \/ ReadFile(t, "home") \/ FinishBackup(t)
             \/ UnpackArchive(t) \/ RestoreFile(t) \/ FinishRestore(t) \/ ReadKeys(t)
      PROVE  UNCHANGED <<mem, cell>>
  BY <1>3 DEF BootPresent, FindSelf, MakeSelf, CheckPassword, ReadFile, FinishBackup,
              UnpackArchive, RestoreFile, FinishRestore, ReadKeys
<1>4. QED
  BY <1>1, <1>2, <1>3 DEF Next, Worker

(* Objects in memory are vaults, and are there until the process ends.     *)
LEMMA ObjectTypes ==
  ASSUME TypeOK, Refers, Next
  PROVE  /\ mem' \in Seq(Vault) /\ cell' \in 0..Len(mem')
         /\ Exit \/ DOMAIN mem \subseteq DOMAIN mem'
<1> DEFINE Goal == /\ mem' \in Seq(Vault) /\ cell' \in 0..Len(mem')
                   /\ Exit \/ DOMAIN mem \subseteq DOMAIN mem'
<1> SUFFICES Goal
  OBVIOUS
<1> USE DEF session
<1>1. /\ mem \in Seq(Vault) /\ cell \in 0..Len(mem) /\ Len(mem) \in Nat
      /\ DOMAIN mem = 1..Len(mem) /\ \A i \in DOMAIN mem : mem[i] \in Vault
  BY DEF TypeOK, Works
<1>2. CASE UNCHANGED <<mem, cell>>
  BY <1>1, <1>2
<1>3. CASE RunLoggedIn
  BY <1>1, <1>3, HeadFields DEF RunLoggedIn, Refers
<1>4. CASE Exit
  BY <1>4 DEF Exit
<1>5. ASSUME NEW v \in Vault, mem' = Append(mem, v), cell' = cell PROVE Goal
  BY <1>1, <1>5, NewObject
<1>6. ASSUME NEW t \in tasks, CreateVault(t) PROVE Goal
  BY <1>2, <1>5, <1>6, VaultOps, TaskFields DEF CreateVault, Kinds
<1>7. ASSUME NEW t \in tasks, OpenVault(t) PROVE Goal
  BY <1>2, <1>5, <1>7 DEF OpenVault, TypeOK, Stored
<1>8. ASSUME NEW t \in tasks, SealKey(t) \/ WriteVault(t) PROVE Goal
  <2>1. t.obj \in DOMAIN mem /\ mem[t.obj] \in Vault /\ t.acc \in Accounts
    BY <1>1, <1>8, TaskFields DEF SealKey, WriteVault, Kinds
  <2>2. \E key \in {"nsec", "active", "backup", "secret"} :
          Persist(t.obj, With(mem[t.obj], key, t.acc))
    BY <1>8, TaskFields DEF SealKey, WriteVault, Kinds
  <2>3. cell' = cell
    BY <1>8 DEF SealKey, WriteVault
  <2>4. QED
    BY <1>1, <2>1, <2>2, <2>3, VaultOps, PersistTypes
<1>9. ASSUME NEW t \in tasks, BootStart(t) \/ BootImport(t) PROVE Goal
  BY <1>1, <1>9, TaskFields, WipeTypes, RegisterTypes DEF BootStart, BootImport, Kinds
<1>10. ASSUME NEW t \in tasks, SyncStart(t) \/ SyncHeal(t) PROVE Goal
  BY <1>1, <1>10, TaskFields, WipeTypes, RegisterTypes
     DEF SyncStart, SyncHeal, Reimported, Kinds
<1>11. ASSUME NEW t \in tasks, AddLogin(t) PROVE Goal
  <2>1. t.acc \in Accounts /\ cell \in DOMAIN mem
    BY <1>1, <1>11, TaskFields DEF AddLogin, Kinds, Refers
  <2>2. QED
    BY <1>1, <1>11, <2>1, RegisterTypes DEF AddLogin
<1>12. QED
  BY <1>2, <1>3, <1>4, <1>6, <1>7, <1>8, <1>9, <1>10, <1>11, ObjectWriters

(* Only these start tasks.                                                 *)
LEMMA TaskStarters ==
  ASSUME Next
  PROVE  \/ tasks' \subseteq tasks
         \/ \E a \in Accounts : Switch(a) \/ AddAccount(a)
         \/ \E pw \in Passwords :
              \/ Unlock(pw) \/ CreateBackup(pw) \/ SubmitImport(pw)
              \/ \E a \in Accounts : LoginWithNsec(a, pw)
         \/ RunLoggedIn \/ RunBooted \/ RunAdded \/ RunRestored \/ RunMerge
         \/ \E t \in tasks :
              \/ CreateVault(t) \/ BootPresent(t) \/ BootStart(t) \/ BootImport(t)
              \/ SyncStart(t) \/ FindSelf(t) \/ AddLogin(t) \/ CheckPassword(t)
              \/ ReadFile(t, "vault") \/ ReadFile(t, "home") \/ UnpackArchive(t)
              \/ RestoreFile(t)
<1>1. Reset \/ OpenImport \/ DismissImport \/ Exit => tasks' \subseteq tasks
  BY DEF Reset, OpenImport, DismissImport, Exit
<1>2. RunLoginFailed \/ RunBootFailed \/ RunBackedUp \/ RunImportEnded \/ RunImportDone
        => tasks' \subseteq tasks
  BY DEF RunLoginFailed, RunBootFailed, RunBackedUp, RunImportEnded, RunImportDone
<1>3. ASSUME NEW t \in tasks,
             \/ SealKey(t) \/ OpenVault(t) \/ SyncHeal(t) \/ WriteVault(t)
             \/ MakeSelf(t) \/ FinishBackup(t) \/ FinishRestore(t) \/ ReadKeys(t)
      PROVE  tasks' \subseteq tasks
  BY <1>3 DEF End, SealKey, OpenVault, SyncHeal, WriteVault, MakeSelf, FinishBackup,
              FinishRestore, ReadKeys
<1>4. QED
  BY <1>1, <1>2, <1>3 DEF Next, User, Worker, RunClosure

(* The files a restore has left to write.                                  *)
LEMMA TodoTails ==
  /\ Tail(<<"vault", "home">>) = <<"home">> /\ Head(<<"vault", "home">>) = "vault"
  /\ Tail(<<"home", "vault">>) = <<"vault">> /\ Head(<<"home", "vault">>) = "home"
  /\ Tail(<<"home">>) = <<>> /\ Head(<<"home">>) = "home"
  /\ Tail(<<"vault">>) = <<>> /\ Head(<<"vault">>) = "vault"
OBVIOUS

(* What a backup has read after one more file.                             *)
LEMMA Copied ==
  ASSUME TypeOK, NEW t \in tasks, ReadFile(t, "vault") \/ ReadFile(t, "home"),
         NEW s \in tasks', s \notin tasks
  PROVE  \E left \in SUBSET {"vault", "home"},
            got \in [pw : Passwords, vault : Vault, home : SUBSET Accounts] :
         /\ s = [kind |-> "backup", left |-> left, got |-> got]
         /\ got.pw = t.got.pw /\ t.kind = "backup"
         /\ \/ /\ got.vault = file /\ got.home = t.got.home
               /\ left = t.left \ {"vault"}
            \/ /\ got.vault = t.got.vault /\ got.home = home
               /\ left = t.left \ {"home"}
<1>1. /\ t = [kind |-> "backup", left |-> t.left, got |-> t.got]
      /\ t.left \subseteq {"vault", "home"}
      /\ t.got \in [pw : Passwords, vault : Vault, home : SUBSET Accounts]
  BY TaskFields DEF ReadFile, Kinds
<1>2. CASE ReadFile(t, "vault")
  <2> DEFINE got == [t.got EXCEPT !.vault = file]
             left == t.left \ {"vault"}
  <2>1. got \in [pw : Passwords, vault : Vault, home : SUBSET Accounts]
        /\ got.pw = t.got.pw /\ got.vault = file /\ got.home = t.got.home
    BY <1>1 DEF TypeOK, Stored
  <2>2. s = [t EXCEPT !.left = left, !.got = got]
    BY <1>2 DEF ReadFile, Become
  <2>3. s = [kind |-> "backup", left |-> left, got |-> got]
    <3>1. PICK l, g : t = [kind |-> "backup", left |-> l, got |-> g]
      BY <1>1
    <3> HIDE DEF left, got
    <3>2. QED
      BY <2>2, <3>1
  <2>4. left \subseteq {"vault", "home"} /\ t.kind = "backup"
    BY <1>1
  <2> HIDE DEF got
  <2>5. QED
    BY <2>1, <2>3, <2>4
<1>3. CASE ReadFile(t, "home")
  <2> DEFINE got == [t.got EXCEPT !.home = home]
             left == t.left \ {"home"}
  <2>1. got \in [pw : Passwords, vault : Vault, home : SUBSET Accounts]
        /\ got.pw = t.got.pw /\ got.vault = t.got.vault /\ got.home = home
    BY <1>1 DEF TypeOK, Stored
  <2>2. s = [t EXCEPT !.left = left, !.got = got]
    BY <1>3 DEF ReadFile, Become
  <2>3. s = [kind |-> "backup", left |-> left, got |-> got]
    <3>1. PICK l, g : t = [kind |-> "backup", left |-> l, got |-> g]
      BY <1>1
    <3> HIDE DEF left, got
    <3>2. QED
      BY <2>2, <3>1
  <2>4. left \subseteq {"vault", "home"} /\ t.kind = "backup"
    BY <1>1
  <2> HIDE DEF got
  <2>5. QED
    BY <2>1, <2>3, <2>4
<1>4. QED
  BY <1>2, <1>3

(* What is started, and by which step.                                     *)
Starts(s) ==
  \/ \E a \in Accounts, pw \in Passwords :
       LoginWithNsec(a, pw) /\ s = [kind |-> "create", acc |-> a, pw |-> pw]
  \/ \E pw \in Passwords :
       \/ Unlock(pw) /\ s = [kind |-> "open", pw |-> pw]
       \/ CreateBackup(pw) /\ s = [kind |-> "check", pw |-> pw]
       \/ /\ SubmitImport(pw)
          /\ s \in {[kind |-> "readKeys", pw |-> pw], [kind |-> "unpack", pw |-> pw]}
  \/ \E a \in Accounts :
       \/ Switch(a) /\ s \in {Write("active", a), [kind |-> "ensure"]}
       \/ AddAccount(a) /\ s = AddOf(0, a)
  \/ /\ RunLoggedIn
     /\ s = [kind |-> "boot", acc |-> Head(uiq).acc, obj |-> Head(uiq).obj,
             hint |-> Head(uiq).hint]
  \/ /\ RunBooted
     /\ s = [kind |-> "write", obj |-> Head(uiq).obj, key |-> "backup",
             acc |-> Head(uiq).acc]
  \/ /\ RunAdded
     /\ s \in {Write("active", Head(uiq).acc), Write("backup", Head(uiq).acc),
               [kind |-> "ensure"]}
  \/ RunRestored /\ s = [kind |-> "open", pw |-> Head(uiq).pw]
  \/ RunMerge /\ \E a \in Head(uiq).nsecs \ home : s = AddOf(Len(tallies) + 1, a)
  \/ \E t \in tasks :
       \/ /\ CreateVault(t)
          /\ s = [kind |-> "seal", acc |-> t.acc, obj |-> Len(mem) + 1]
          /\ mem' = Append(mem, Empty(t.pw))
       \/ /\ BootPresent(t) \/ BootImport(t)
          /\ \E b \in BOOLEAN :
               s = [kind |-> "sync", acc |-> t.acc, obj |-> t.obj, start |-> b]
       \/ /\ BootStart(t)
          /\ s = [kind |-> "import", acc |-> t.acc, obj |-> t.obj,
                  hint |-> t.hint]
       \/ /\ SyncStart(t)
          /\ s = [kind |-> "heal", acc |-> t.acc, obj |-> t.obj,
                  start |-> t.start]
       \/ FindSelf(t) /\ s = [kind |-> "makeSelf"]
       \/ AddLogin(t) /\ s = Write("backup", t.acc)
       \/ /\ CheckPassword(t)
          /\ s = [kind |-> "backup", left |-> {"vault", "home"},
                  got |-> [pw |-> t.pw, vault |-> NoVault, home |-> {}]]
       \/ /\ ReadFile(t, "vault") \/ ReadFile(t, "home")
          /\ s.kind = "backup"
       \/ /\ UnpackArchive(t)
          /\ \E todo \in {<<"vault", "home">>, <<"home", "vault">>} :
               s = [kind |-> "restore", pw |-> t.pw, todo |-> todo]
       \/ /\ RestoreFile(t)
          /\ s = [kind |-> "restore", pw |-> t.pw, todo |-> Tail(t.todo)]
(* Every new task is one of these.                                         *)
LEMMA TaskSources ==
  ASSUME TypeOK, Next, NEW s \in tasks', s \notin tasks
  PROVE  Starts(s)
<1> USE DEF Start, Become
<1>1. ASSUME NEW a \in Accounts, Switch(a)
      PROVE  s \in {Write("active", a), [kind |-> "ensure"]}
  BY <1>1 DEF Switch, SwitchTo
<1>2. ASSUME NEW a \in Accounts, AddAccount(a) PROVE s = AddOf(0, a)
  BY <1>2 DEF AddAccount, AddOf
<1>3. ASSUME NEW pw \in Passwords, Unlock(pw) PROVE s = [kind |-> "open", pw |-> pw]
  BY <1>3 DEF Unlock
<1>4. ASSUME NEW pw \in Passwords, CreateBackup(pw)
      PROVE  s = [kind |-> "check", pw |-> pw]
  BY <1>4 DEF CreateBackup
<1>5. ASSUME NEW pw \in Passwords, SubmitImport(pw)
      PROVE  s \in {[kind |-> "readKeys", pw |-> pw], [kind |-> "unpack", pw |-> pw]}
  <2>1. \/ tasks' = tasks \cup {[kind |-> "readKeys", pw |-> pw]}
        \/ tasks' = tasks \cup {[kind |-> "unpack", pw |-> pw]}
    BY <1>5, Zenon DEF SubmitImport
  <2>2. QED
    BY <2>1
<1>6. ASSUME NEW pw \in Passwords, NEW a \in Accounts, LoginWithNsec(a, pw)
      PROVE  s = [kind |-> "create", acc |-> a, pw |-> pw]
  BY <1>6 DEF LoginWithNsec
<1>7. CASE RunLoggedIn
  BY <1>7 DEF Starts, RunLoggedIn
<1>8. CASE RunBooted
  BY <1>8 DEF Starts, RunBooted
<1>9. CASE RunAdded
  BY <1>9 DEF Starts, RunAdded, SwitchTo
<1>10. CASE RunRestored
  BY <1>10 DEF Starts, RunRestored
<1>11. CASE RunMerge
  BY <1>11 DEF Starts, RunMerge, AddOf
<1>12. ASSUME NEW t \in tasks, CreateVault(t)
       PROVE  /\ s = [kind |-> "seal", acc |-> t.acc, obj |-> Len(mem) + 1]
              /\ mem' = Append(mem, Empty(t.pw))
  BY <1>12 DEF CreateVault, End
<1>13. ASSUME NEW t \in tasks, BootPresent(t) \/ BootImport(t)
       PROVE  \E b \in BOOLEAN :
                s = [kind |-> "sync", acc |-> t.acc, obj |-> t.obj, start |-> b]
  BY <1>13 DEF BootPresent, BootImport, BootReady, End
<1>23. ASSUME NEW t \in tasks, BootStart(t)
       PROVE  s = [kind |-> "import", acc |-> t.acc, obj |-> t.obj, hint |-> t.hint]
  BY <1>23, TaskFields DEF BootStart, Kinds
<1>15. ASSUME NEW t \in tasks, SyncStart(t)
       PROVE  s = [kind |-> "heal", acc |-> t.acc, obj |-> t.obj, start |-> t.start]
  BY <1>15, TaskFields DEF SyncStart, End, Kinds
<1>16. ASSUME NEW t \in tasks, FindSelf(t) PROVE s = [kind |-> "makeSelf"]
  BY <1>16 DEF FindSelf, End
<1>17. ASSUME NEW t \in tasks, AddLogin(t) PROVE s = Write("backup", t.acc)
  <2>1. AddDone(t, TRUE) \/ AddDone(t, FALSE)
    BY <1>17 DEF AddLogin
  <2>2. QED
    BY <2>1 DEF AddDone, End
<1>18. ASSUME NEW t \in tasks, CheckPassword(t)
       PROVE  s = [kind |-> "backup", left |-> {"vault", "home"},
                   got |-> [pw |-> t.pw, vault |-> NoVault, home |-> {}]]
  BY <1>18 DEF CheckPassword, Unread, End
<1>19. ASSUME NEW t \in tasks, ReadFile(t, "vault") \/ ReadFile(t, "home")
       PROVE  s.kind = "backup"
  BY <1>19, Copied
<1>20. ASSUME NEW t \in tasks, UnpackArchive(t)
       PROVE  \E todo \in {<<"vault", "home">>, <<"home", "vault">>} :
                s = [kind |-> "restore", pw |-> t.pw, todo |-> todo]
  BY <1>20 DEF UnpackArchive, End
<1>21. ASSUME NEW t \in tasks, RestoreFile(t)
       PROVE  s = [kind |-> "restore", pw |-> t.pw, todo |-> Tail(t.todo)]
  BY <1>21, TaskFields DEF RestoreFile, End, Kinds
<1>22. QED
  BY <1>1, <1>2, <1>3, <1>4, <1>5, <1>6, <1>7, <1>8, <1>9, <1>10, <1>11, <1>12, <1>13,
     <1>23, <1>15, <1>16, <1>17, <1>18, <1>19, <1>20, <1>21, TaskStarters DEF Starts

(* A task that is started has the type of its kind, and finds the object   *)
(* it writes in memory.                                                    *)
ObjectKinds == {"seal", "boot", "import", "sync", "heal", "write"}
(* The record of a new task is well-formed.                                *)
LEMMA TaskTypes ==
  ASSUME TypeOK, Refers, Next, NEW s \in tasks', s \notin tasks
  PROVE  s \in Task /\ (s.kind \in ObjectKinds => s.obj \in DOMAIN mem')
<1> USE DEF ObjectKinds
<1>1. /\ \A i \in DOMAIN mem : i \in Nat /\ i \in DOMAIN mem'
      /\ Len(mem) + 1 \in Nat /\ Len(tallies) + 1 \in Nat
      /\ cell # 0 => cell \in DOMAIN mem
  <2>1. ~Exit
    BY DEF Exit
  <2>2. QED
    BY <2>1, ObjectTypes DEF TypeOK, Works, Shows
<1>2. ASSUME NEW key \in {"active", "backup"}, NEW a \in Accounts, s = Write(key, a),
             cell # 0
      PROVE  s \in Task /\ (s.kind \in ObjectKinds => s.obj \in DOMAIN mem')
  BY <1>1, <1>2 DEF Write, Task
<1>3. ASSUME NEW a \in Accounts, NEW k \in Nat, s = AddOf(k, a)
      PROVE  s \in Task /\ s.kind \notin ObjectKinds
  BY <1>3 DEF Task, AddOf
<1>4. ASSUME s \in {[kind |-> "ensure"], [kind |-> "makeSelf"]}
      PROVE  s \in Task /\ s.kind \notin ObjectKinds
  BY <1>4 DEF Task
<1>5. ASSUME NEW pw \in Passwords, NEW kind \in {"open", "check", "unpack", "readKeys"},
             s = [kind |-> kind, pw |-> pw]
      PROVE  s \in Task /\ s.kind \notin ObjectKinds
  BY <1>5 DEF Task
<1>6. ASSUME NEW a \in Accounts, NEW pw \in Passwords,
             s = [kind |-> "create", acc |-> a, pw |-> pw]
      PROVE  s \in Task /\ s.kind \notin ObjectKinds
  BY <1>6 DEF Task
<1>7. ASSUME NEW pw \in Passwords,
             NEW todo \in {<<"vault", "home">>, <<"home", "vault">>, <<"home">>,
                           <<"vault">>, <<>>},
             s = [kind |-> "restore", pw |-> pw, todo |-> todo]
      PROVE  s \in Task /\ s.kind \notin ObjectKinds
  BY <1>7 DEF Task
<1>8. ASSUME NEW a \in Accounts, Switch(a),
             s \in {Write("active", a), [kind |-> "ensure"]}
      PROVE  s \in Task /\ (s.kind \in ObjectKinds => s.obj \in DOMAIN mem')
  BY <1>2, <1>4, <1>8 DEF Switch, Refers, Inside
<1>9. ASSUME RunLoggedIn,
              s = [kind |-> "boot", acc |-> Head(uiq).acc, obj |-> Head(uiq).obj,
                   hint |-> Head(uiq).hint]
       PROVE  s \in Task /\ s.obj \in DOMAIN mem'
  <2>1. /\ Head(uiq).acc \in Accounts /\ Head(uiq).obj \in DOMAIN mem
        /\ Head(uiq).hint \in Accounts \cup {None}
    BY <1>9, HeadFields DEF RunLoggedIn, Refers
  <2>2. QED
    BY <1>1, <1>9, <2>1 DEF Task
<1>10. ASSUME RunBooted,
             s = [kind |-> "write", obj |-> Head(uiq).obj, key |-> "backup",
                  acc |-> Head(uiq).acc]
      PROVE  s \in Task /\ s.obj \in DOMAIN mem'
  <2>1. Head(uiq).acc \in Accounts /\ Head(uiq).obj \in DOMAIN mem
    BY <1>10, HeadFields DEF RunBooted, Refers
  <2>2. QED
    BY <1>1, <1>10, <2>1 DEF Task
<1>11. ASSUME RunAdded,
              s \in {Write("active", Head(uiq).acc), Write("backup", Head(uiq).acc),
                     [kind |-> "ensure"]}
       PROVE  s \in Task /\ (s.kind \in ObjectKinds => s.obj \in DOMAIN mem')
  <2>1. cell # 0 /\ Head(uiq).acc \in Accounts
    BY <1>11, HeadFields DEF RunAdded, Refers, Posted
  <2>2. QED
    BY <1>2, <1>4, <1>11, <2>1
<1>12. ASSUME RunRestored, s = [kind |-> "open", pw |-> Head(uiq).pw]
       PROVE  s \in Task /\ s.kind \notin ObjectKinds
  BY <1>5, <1>12, HeadFields DEF RunRestored
<1>13. ASSUME RunMerge, NEW a \in Head(uiq).nsecs \ home, s = AddOf(Len(tallies) + 1, a)
       PROVE  s \in Task /\ s.kind \notin ObjectKinds
  BY <1>1, <1>3, <1>13, HeadFields DEF RunMerge
<1>14. ASSUME NEW t \in tasks, CreateVault(t), mem' = Append(mem, Empty(t.pw)),
              s = [kind |-> "seal", acc |-> t.acc, obj |-> Len(mem) + 1]
       PROVE  s \in Task /\ s.obj \in DOMAIN mem'
  <2>1. t.acc \in Accounts /\ t.pw \in Passwords
    BY <1>14, TaskFields DEF CreateVault, Kinds
  <2>2. s \in Task
    BY <1>1, <1>14, <2>1 DEF Task
  <2>3. QED
    BY <1>14, <2>1, <2>2, VaultOps, NewObject
<1>15. ASSUME NEW t \in tasks, BootPresent(t) \/ BootImport(t), NEW b \in BOOLEAN,
              s = [kind |-> "sync", acc |-> t.acc, obj |-> t.obj, start |-> b]
       PROVE  s \in Task /\ s.obj \in DOMAIN mem'
  <2>1. t.acc \in Accounts /\ t.obj \in DOMAIN mem
    BY <1>15, TaskFields DEF BootPresent, BootImport, Kinds
  <2>2. QED
    BY <1>1, <1>15, <2>1 DEF Task
<1>16. ASSUME NEW t \in tasks, BootStart(t),
              s = [kind |-> "import", acc |-> t.acc, obj |-> t.obj, hint |-> t.hint]
       PROVE  s \in Task /\ s.obj \in DOMAIN mem'
  <2>1. t.acc \in Accounts /\ t.obj \in DOMAIN mem /\ t.hint \in Accounts \cup {None}
    BY <1>16, TaskFields DEF BootStart, Kinds
  <2>2. QED
    BY <1>1, <1>16, <2>1 DEF Task
<1>17. ASSUME NEW t \in tasks, SyncStart(t),
              s = [kind |-> "heal", acc |-> t.acc, obj |-> t.obj, start |-> t.start]
       PROVE  s \in Task /\ s.obj \in DOMAIN mem'
  <2>1. t.acc \in Accounts /\ t.obj \in DOMAIN mem /\ t.start \in BOOLEAN
    BY <1>17, TaskFields DEF SyncStart, Kinds
  <2>2. QED
    BY <1>1, <1>17, <2>1 DEF Task
<1>25. ASSUME NEW t \in tasks, AddLogin(t), s = Write("backup", t.acc)
       PROVE  s \in Task /\ (s.kind \in ObjectKinds => s.obj \in DOMAIN mem')
  <2>1. cell # 0 /\ t.acc \in Accounts
    BY <1>25, TaskFields DEF AddLogin, Refers, Kinds
  <2>2. QED
    BY <1>2, <1>25, <2>1
<1>19. ASSUME NEW t \in tasks, CheckPassword(t),
              s = [kind |-> "backup", left |-> {"vault", "home"},
                   got |-> [pw |-> t.pw, vault |-> NoVault, home |-> {}]]
       PROVE  s \in Task /\ s.kind \notin ObjectKinds
  BY <1>19, TaskFields, VaultOps DEF CheckPassword, Kinds, Task
<1>20. ASSUME NEW t \in tasks, ReadFile(t, "vault") \/ ReadFile(t, "home")
       PROVE  s \in Task /\ s.kind \notin ObjectKinds
  BY <1>20, Copied DEF Task
<1>21. ASSUME NEW t \in tasks, UnpackArchive(t),
              NEW todo \in {<<"vault", "home">>, <<"home", "vault">>},
              s = [kind |-> "restore", pw |-> t.pw, todo |-> todo]
       PROVE  s \in Task /\ s.kind \notin ObjectKinds
  BY <1>7, <1>21, TaskFields DEF UnpackArchive, Kinds
<1>22. ASSUME NEW t \in tasks, RestoreFile(t),
              s = [kind |-> "restore", pw |-> t.pw, todo |-> Tail(t.todo)]
       PROVE  s \in Task /\ s.kind \notin ObjectKinds
  BY <1>7, <1>22, TaskFields, TodoTails DEF RestoreFile, Kinds
<1>23. 0 \in Nat
  OBVIOUS
<1>24. QED
  BY <1>3, <1>4, <1>5, <1>6, <1>10, <1>8, <1>9, <1>11, <1>12, <1>13, <1>14, <1>15,
     <1>25, <1>19, <1>20, <1>21, <1>16, <1>17, <1>22, <1>23, TaskSources DEF Starts

(* Only these post closures.                                               *)
LEMMA ClosurePosters ==
  ASSUME Next
  PROVE  \/ uiq' = uiq
         \/ uiq # <<>> /\ uiq' = Tail(uiq)
         \/ Exit
         \/ \E t \in tasks :
              \/ CreateVault(t) \/ SealKey(t) \/ OpenVault(t) \/ BootPresent(t)
              \/ BootImport(t) \/ AddLogin(t) \/ CheckPassword(t) \/ FinishBackup(t)
              \/ UnpackArchive(t) \/ RestoreFile(t) \/ FinishRestore(t) \/ ReadKeys(t)
<1>1. User => uiq' = uiq \/ Exit
  BY DEF User, LoginWithNsec, Unlock, CreateBackup, SubmitImport, Switch, AddAccount,
         OpenImport, DismissImport, Reset
<1>2. RunClosure => uiq # <<>> /\ uiq' = Tail(uiq)
  BY DEF RunClosure, RunLoginFailed, RunLoggedIn, RunBootFailed, RunBooted, RunAdded,
         RunBackedUp, RunRestored, RunMerge, RunImportEnded, RunImportDone
<1>3. ASSUME NEW t \in tasks,
             \/ BootStart(t) \/ SyncStart(t) \/ SyncHeal(t) \/ WriteVault(t)
             \/ FindSelf(t) \/ MakeSelf(t) \/ ReadFile(t, "vault") \/ ReadFile(t, "home")
      PROVE  uiq' = uiq
  BY <1>3 DEF BootStart, SyncStart, SyncHeal, WriteVault, FindSelf, MakeSelf, ReadFile
<1>4. QED
  BY <1>1, <1>2, <1>3 DEF Next, Worker

(* What is posted, and by which step.                                      *)
Posts(t, c) ==
  \/ /\ CreateVault(t) \/ SealKey(t) \/ OpenVault(t)
     /\ c = [kind |-> "loginFailed"]
  \/ /\ SealKey(t) /\ file'.nsec = t.acc
     /\ c = [kind |-> "loggedIn", acc |-> t.acc, obj |-> t.obj, hint |-> None]
  \/ /\ OpenVault(t) /\ file.nsec # None /\ mem' = Append(mem, file)
     /\ c = [kind |-> "loggedIn", acc |-> file.nsec, obj |-> Len(mem) + 1,
             hint |-> file.active]
  \/ /\ BootPresent(t) \/ BootImport(t)
     /\ c = [kind |-> "booted", acc |-> t.acc,
             active |-> Shown(t.hint, t.acc, home'), obj |-> t.obj]
  \/ BootImport(t) /\ c = [kind |-> "bootFailed"]
  \/ /\ AddLogin(t) /\ t.merge = 0
     /\ \E ok \in BOOLEAN : c = [kind |-> "added", acc |-> t.acc, ok |-> ok]
  \/ AddLogin(t) /\ t.merge # 0 /\ \E ok : c = [kind |-> "importDone", ok |-> ok]
  \/ (CheckPassword(t) \/ FinishBackup(t)) /\ c = [kind |-> "backedUp"]
  \/ /\ UnpackArchive(t) \/ RestoreFile(t) \/ ReadKeys(t)
     /\ c = [kind |-> "importEnded"]
  \/ FinishRestore(t) /\ c = [kind |-> "restored", pw |-> t.pw]
  \/ ReadKeys(t) /\ c = [kind |-> "merge", nsecs |-> Nsecs(archive.vault)]
(* The queue is left alone, shortened, cleared or posted to as above.      *)
LEMMA ClosureSources ==
  ASSUME TypeOK, Next
  PROVE  \/ uiq' = uiq
         \/ uiq # <<>> /\ uiq' = Tail(uiq)
         \/ Exit /\ uiq' = <<>>
         \/ \E t \in tasks : \E c : Post(c) /\ Posts(t, c)
<1>1. ASSUME NEW t \in tasks, CreateVault(t)
      PROVE  uiq' = uiq \/ Post([kind |-> "loginFailed"])
  BY <1>1 DEF CreateVault
<1>2. ASSUME NEW t \in tasks, SealKey(t)
      PROVE  \/ Post([kind |-> "loginFailed"])
             \/ /\ file'.nsec = t.acc
                /\ Post([kind |-> "loggedIn", acc |-> t.acc, obj |-> t.obj,
                         hint |-> None])
  BY <1>2 DEF SealKey
<1>3. ASSUME NEW t \in tasks, OpenVault(t)
      PROVE  \/ Post([kind |-> "loginFailed"])
             \/ /\ file.nsec # None /\ mem' = Append(mem, file)
                /\ Post([kind |-> "loggedIn", acc |-> file.nsec, obj |-> Len(mem) + 1,
                         hint |-> file.active])
  BY <1>3 DEF OpenVault
<1>4. ASSUME NEW t \in tasks, BootPresent(t) \/ BootImport(t)
      PROVE  \/ BootImport(t) /\ Post([kind |-> "bootFailed"])
             \/ Post([kind |-> "booted", acc |-> t.acc,
                      active |-> Shown(t.hint, t.acc, home'), obj |-> t.obj])
  BY <1>4 DEF BootPresent, BootImport, BootReady
<1>5. ASSUME NEW t \in tasks, AddLogin(t)
      PROVE  \/ uiq' = uiq
             \/ /\ t.merge = 0
                /\ \E ok \in BOOLEAN : Post([kind |-> "added", acc |-> t.acc, ok |-> ok])
             \/ t.merge # 0 /\ \E ok : Post([kind |-> "importDone", ok |-> ok])
  BY <1>5 DEF AddLogin, AddDone
<1>6. ASSUME NEW t \in tasks, CheckPassword(t) \/ FinishBackup(t)
      PROVE  uiq' = uiq \/ Post([kind |-> "backedUp"])
  BY <1>6 DEF CheckPassword, FinishBackup
<1>7. ASSUME NEW t \in tasks, UnpackArchive(t) \/ RestoreFile(t)
      PROVE  uiq' = uiq \/ Post([kind |-> "importEnded"])
  BY <1>7 DEF UnpackArchive, RestoreFile, Ended
<1>8. ASSUME NEW t \in tasks, FinishRestore(t)
      PROVE  Post([kind |-> "restored", pw |-> t.pw])
  BY <1>8 DEF FinishRestore
<1>9. ASSUME NEW t \in tasks, ReadKeys(t)
      PROVE  \/ Post([kind |-> "importEnded"])
             \/ Post([kind |-> "merge", nsecs |-> Nsecs(archive.vault)])
  BY <1>9 DEF ReadKeys, Ended
<1>10. Exit => uiq' = <<>>
  BY DEF Exit
<1>11. QED
  BY <1>1, <1>2, <1>3, <1>4, <1>5, <1>6, <1>7, <1>8, <1>9, <1>10, ClosurePosters DEF Posts

(* A summary is posted with the tally it sums up.                          *)
LEMMA SummaryTypes ==
  ASSUME TypeOK, Refers, Tallied, NEW t \in tasks, AddLogin(t), t.merge # 0,
         NEW ok, Post([kind |-> "importDone", ok |-> ok])
  PROVE  ok \in BOOLEAN
<1>1. PICK b \in BOOLEAN : AddDone(t, b)
  BY DEF AddLogin
<1>2. tallies[t.merge].ok \in BOOLEAN
  BY TallyTypes DEF AddLogin, Kinds
<1>3. Tally(tallies[t.merge], b).ok \in BOOLEAN
  BY <1>2 DEF Tally
<1>4. \/ uiq' = uiq
      \/ Post([kind |-> "importDone", ok |-> Tally(tallies[t.merge], b).ok])
  BY <1>1 DEF AddDone
<1>5. uiq'[Len(uiq) + 1] = [kind |-> "importDone", ok |-> ok]
      /\ Len(uiq) + 1 \in DOMAIN uiq' /\ Len(uiq) + 1 \notin DOMAIN uiq
  BY Posting
<1>6. Post([kind |-> "importDone", ok |-> Tally(tallies[t.merge], b).ok])
  BY <1>4, <1>5
<1>7. uiq'[Len(uiq) + 1] = [kind |-> "importDone", ok |-> Tally(tallies[t.merge], b).ok]
  BY <1>6, Posting
<1>8. QED
  BY <1>3, <1>5, <1>7

(* A closure that is posted has the type of its kind, and names an object  *)
(* that is there.                                                          *)
LEMMA ClosureTypes ==
  ASSUME TypeOK, Refers, Tallied, Next, NEW t \in tasks, NEW c, Post(c), Posts(t, c)
  PROVE  /\ c \in Closure
         /\ c.kind \in {"loggedIn", "booted"} => c.obj \in DOMAIN mem'
<1> DEFINE Goal == /\ c \in Closure
                   /\ c.kind \in {"loggedIn", "booted"} => c.obj \in DOMAIN mem'
<1>1. CASE c \in {[kind |-> "loginFailed"], [kind |-> "bootFailed"], [kind |-> "backedUp"],
                  [kind |-> "importEnded"]}
  BY <1>1 DEF Closure
<1>2. ~Exit
  BY Posting DEF Exit
<1>3. CASE SealKey(t) /\ c = [kind |-> "loggedIn", acc |-> t.acc, obj |-> t.obj, hint |-> None]
  <2>1. t.acc \in Accounts /\ t.obj \in Nat /\ t.obj \in DOMAIN mem'
    BY <1>2, <1>3, TaskFields, ObjectTypes DEF SealKey, Kinds
  <2>2. QED
    BY <1>3, <2>1 DEF Closure
<1>4. CASE /\ file.nsec # None /\ mem' = Append(mem, file)
           /\ c = [kind |-> "loggedIn", acc |-> file.nsec,
                   obj |-> Len(mem) + 1, hint |-> file.active]
  <2>1. file \in Vault /\ Len(mem) + 1 \in Nat /\ Len(mem) + 1 \in DOMAIN mem'
    BY <1>4, NewObject DEF TypeOK, Stored, Works
  <2>2. QED
    BY <1>4, <2>1 DEF Closure, Vault
<1>5. CASE /\ BootPresent(t) \/ BootImport(t)
           /\ c = [kind |-> "booted", acc |-> t.acc,
                   active |-> Shown(t.hint, t.acc, home'), obj |-> t.obj]
  <2>1. t.acc \in Accounts /\ t.obj \in Nat /\ t.obj \in DOMAIN mem'
    BY <1>2, <1>5, TaskFields, ObjectTypes DEF BootPresent, BootImport, Kinds
  <2>2. Shown(t.hint, t.acc, home') \in Accounts
    BY <2>1, StoredTypes DEF Shown, Stored
  <2>3. QED
    BY <1>5, <2>1, <2>2 DEF Closure
<1>6. CASE AddLogin(t) /\ \E ok \in BOOLEAN : c = [kind |-> "added", acc |-> t.acc, ok |-> ok]
  BY <1>6, TaskFields DEF AddLogin, Kinds, Closure
<1>7. CASE AddLogin(t) /\ t.merge # 0 /\ \E ok : c = [kind |-> "importDone", ok |-> ok]
  BY <1>7, SummaryTypes DEF Closure
<1>8. CASE FinishRestore(t) /\ c = [kind |-> "restored", pw |-> t.pw]
  BY <1>8, TaskFields DEF FinishRestore, Kinds, Closure
<1>9. CASE c = [kind |-> "merge", nsecs |-> Nsecs(archive.vault)]
  <2>1. Nsecs(archive.vault) \in SUBSET Accounts
    BY DEF Nsecs, TypeOK, Stored, Vault
  <2>2. QED
    BY <1>9, <2>1 DEF Closure
<1>10. QED
  BY <1>1, <1>3, <1>4, <1>5, <1>6, <1>7, <1>8, <1>9 DEF Posts

(* Threads, closures and objects in memory keep their types.               *)
LEMMA WorksTypes == TypeOK /\ Refers /\ Tallied /\ Next => Works'
<1> SUFFICES ASSUME TypeOK, Refers, Tallied, Next PROVE Works'
  OBVIOUS
<1>1. /\ tasks \subseteq Task /\ uiq \in Seq(Closure)
      /\ \A t \in tasks : t.kind \in ObjectKinds => t.obj \in DOMAIN mem
  BY DEF TypeOK, Works, Kinds, ObjectKinds
<1>2. tasks' \subseteq Task
  BY <1>1, TaskTypes
<1>3. \A s \in tasks' : s.kind \in ObjectKinds => s.obj \in DOMAIN mem'
  <2>1. CASE Exit
    BY <2>1 DEF Exit
  <2>2. CASE ~Exit
    BY <1>1, <2>2, TaskTypes, ObjectTypes
  <2>3. QED
    BY <2>1, <2>2
<1>4. uiq' \in Seq(Closure)
  <2>1. ASSUME NEW t \in tasks, NEW c, Post(c), Posts(t, c) PROVE uiq' \in Seq(Closure)
    BY <2>1, ClosureTypes, Posting
  <2>2. uiq # <<>> => Tail(uiq) \in Seq(Closure)
    BY HeadFields
  <2>3. <<>> \in Seq(Closure)
    OBVIOUS
  <2>4. QED
    BY <1>1, <2>1, <2>2, <2>3, ClosureSources
<1>5. QED
  BY <1>2, <1>3, <1>4, ObjectTypes DEF Works, Kinds, ObjectKinds

(* What tasks and closures refer to stays.                                 *)
LEMMA RefersStep == TypeOK /\ Refers /\ Tallied /\ Next => Refers'
<1> SUFFICES ASSUME TypeOK, Refers, Tallied, Next PROVE Refers'
  OBVIOUS
<1>1. CASE Exit
  BY <1>1 DEF Exit, Refers, Kinds, Posted, Inside
<1> SUFFICES ASSUME ~Exit PROVE Refers'
  BY <1>1
<1>2. /\ DOMAIN mem \subseteq DOMAIN mem' /\ 0 \notin DOMAIN mem
      /\ \A i \in DOMAIN uiq : uiq[i].kind \in {"loggedIn", "booted"} => uiq[i].obj \in DOMAIN mem
  BY ObjectTypes DEF Refers, TypeOK, Works
<1>3. \A i \in DOMAIN uiq' :
        uiq'[i].kind \in {"loggedIn", "booted"} => uiq'[i].obj \in DOMAIN mem'
  <2>1. CASE uiq' = uiq
    BY <1>2, <2>1
  <2>2. CASE uiq # <<>> /\ uiq' = Tail(uiq)
    BY <1>2, <2>2, Taking
  <2>3. ASSUME NEW t \in tasks, NEW c, Post(c), Posts(t, c)
        PROVE  \A i \in DOMAIN uiq' :
                 uiq'[i].kind \in {"loggedIn", "booted"} => uiq'[i].obj \in DOMAIN mem'
    BY <1>2, <2>3, ClosureTypes, Posting
  <2>4. QED
    BY <2>1, <2>2, <2>3, ClosureSources
<1>4. Len(tallies) \in Nat /\ Len(tallies') \in Nat /\ Len(tallies) <= Len(tallies')
  <2>1. tallies' = tallies \/ Len(tallies') = Len(tallies) \/ RunMerge
    <3>1. ASSUME NEW t \in tasks, AddLogin(t) PROVE Len(tallies') = Len(tallies)
      <4>1. tallies' = tallies \/ \E n : tallies' = [tallies EXCEPT ![t.merge] = n]
        BY <3>1 DEF AddLogin, AddDone
      <4>2. QED
        BY <4>1 DEF TypeOK, Shows
    <3>2. ASSUME NEW a \in Accounts, Switch(a) PROVE tallies' = tallies
      BY <3>2 DEF Switch
    <3>3. CASE Reset \/ OpenImport \/ DismissImport
      BY <3>3 DEF Reset, OpenImport, DismissImport, session
    <3>4. CASE RunLoggedIn \/ RunBootFailed \/ RunBooted \/ RunAdded
      BY <3>4 DEF RunLoggedIn, RunBootFailed, RunBooted, RunAdded
    <3>5. CASE RunRestored \/ RunImportDone
      BY <3>5 DEF RunRestored, RunImportDone, session
    <3>6. QED
      BY <3>1, <3>2, <3>3, <3>4, <3>5, ShowWriters
  <2>2. RunMerge => tallies' = tallies \/ \E n : tallies' = Append(tallies, n)
    BY DEF RunMerge
  <2>3. QED
    BY <2>1, <2>2 DEF TypeOK, Shows
<1>5. \A t \in Kinds({"add"})' : t.merge \in 0..Len(tallies')
  <2> SUFFICES ASSUME NEW s \in tasks', s.kind = "add" PROVE s.merge \in 0..Len(tallies')
    BY DEF Kinds
  <2>1. CASE s \in tasks
    BY <1>4, <2>1 DEF Refers, Kinds
  <2>2. CASE s \notin tasks
    <3>1. \/ \E a \in Accounts : s = AddOf(0, a)
          \/ RunMerge /\ \E a : s = AddOf(Len(tallies) + 1, a)
      BY <2>2, TaskSources DEF Starts, Write
    <3>2. RunMerge => \E n : tallies' = Append(tallies, n)
      <4>1. RunMerge => tasks' = tasks \/ \E n : tallies' = Append(tallies, n)
        BY DEF RunMerge
      <4>2. QED
        BY <2>2, <4>1
    <3>3. QED
      BY <1>4, <3>1, <3>2 DEF AddOf, TypeOK, Shows
  <2>3. QED
    BY <2>1, <2>2
<1>6. CASE cell # 0
  <2>1. cell' # 0
    <3>1. RunLoggedIn => cell' \in DOMAIN mem
      BY HeadFields DEF RunLoggedIn, Refers
    <3>2. ASSUME NEW t \in tasks,
                 \/ CreateVault(t) \/ OpenVault(t) \/ SealKey(t) \/ WriteVault(t)
                 \/ BootStart(t) \/ BootImport(t) \/ SyncStart(t) \/ SyncHeal(t)
                 \/ AddLogin(t)
          PROVE  cell' = cell
      BY <3>2 DEF CreateVault, OpenVault, SealKey, WriteVault, BootStart, BootImport,
                  SyncStart, SyncHeal, AddLogin, session
    <3>3. QED
      BY <1>2, <1>6, <3>1, <3>2, ObjectWriters
  <2>2. QED
    BY <1>3, <1>5, <2>1 DEF Refers
<1>7. CASE cell = 0
  <2>1. screen \notin Inside /\ Kinds({"boot", "import", "add"}) = {}
        /\ ~Posted({"booted", "bootFailed", "added"})
    BY <1>7 DEF Refers
  <2>2. RunLoggedIn => cell' \in DOMAIN mem
    BY HeadFields DEF RunLoggedIn, Refers
  <2>3. CASE RunLoggedIn
    BY <1>2, <1>3, <1>5, <2>2, <2>3 DEF Refers
  <2>4. CASE ~RunLoggedIn
    <3>1. Kinds({"boot", "import", "add"})' = {}
      <4> SUFFICES ASSUME NEW s \in tasks', s.kind \in {"boot", "import", "add"} PROVE FALSE
        BY DEF Kinds
      <4>1. s \notin tasks
        BY <2>1 DEF Kinds
      <4>2. ~RunMerge /\ \A a \in Accounts : ~AddAccount(a)
        BY <2>1, <4>1 DEF RunMerge, AddAccount, Inside
      <4>3. \A t \in tasks : ~BootStart(t)
        BY <2>1 DEF BootStart, Kinds
      <4>4. QED
        BY <2>4, <4>1, <4>2, <4>3, TaskSources DEF Starts, Write
    <3>2. ~Posted({"booted", "bootFailed", "added"})'
      <4>1. ASSUME NEW t \in tasks PROVE ~BootPresent(t) /\ ~BootImport(t) /\ ~AddLogin(t)
        BY <2>1 DEF BootPresent, BootImport, AddLogin, Kinds
      <4>2. ASSUME NEW t \in tasks, NEW c, Posts(t, c)
            PROVE  c.kind \notin {"booted", "bootFailed", "added"}
        BY <4>1, <4>2 DEF Posts
      <4>3. CASE uiq' = uiq
        BY <2>1, <4>3 DEF Posted
      <4>4. CASE uiq # <<>> /\ uiq' = Tail(uiq)
        BY <2>1, <4>4, Taking DEF Posted
      <4>5. ASSUME NEW t \in tasks, NEW c, Post(c), Posts(t, c)
            PROVE  ~Posted({"booted", "bootFailed", "added"})'
        BY <2>1, <4>2, <4>5, Posting DEF Posted
      <4>6. QED
        BY <4>3, <4>4, <4>5, ClosureSources
    <3>3. screen' \notin Inside
      <4>1. ~RunBooted /\ ~RunBootFailed
        BY <2>1, Taking, HeadFields DEF RunBooted, RunBootFailed, Posted
      <4>2. \A a \in Accounts : ~Switch(a)
        BY <2>1 DEF Switch, Inside
      <4>3. \A t \in tasks : ~AddLogin(t)
        BY <2>1 DEF AddLogin, Kinds
      <4>4. CASE Reset \/ OpenImport \/ DismissImport
        BY <2>1, <4>4 DEF Reset, OpenImport, DismissImport, session, Inside
      <4>5. CASE RunAdded \/ RunRestored \/ RunMerge \/ RunImportDone
        BY <2>1, <4>5 DEF RunAdded, RunRestored, RunMerge, RunImportDone, session
      <4>6. QED
        BY <2>1, <2>4, <4>1, <4>2, <4>3, <4>4, <4>5, ShowWriters
    <3>4. QED
      BY <1>3, <1>5, <3>1, <3>2, <3>3 DEF Refers
  <2>5. QED
    BY <2>3, <2>4
<1>8. QED
  BY <1>6, <1>7

(* A task ends by its own step.                                            *)
Runs(t) ==
  \/ CreateVault(t) \/ SealKey(t) \/ OpenVault(t)
  \/ BootPresent(t) \/ BootStart(t) \/ BootImport(t)
  \/ SyncStart(t) \/ SyncHeal(t) \/ WriteVault(t)
  \/ FindSelf(t) \/ MakeSelf(t) \/ AddLogin(t)
  \/ CheckPassword(t) \/ ReadFile(t, "vault") \/ ReadFile(t, "home")
  \/ FinishBackup(t) \/ UnpackArchive(t) \/ RestoreFile(t)
  \/ FinishRestore(t) \/ ReadKeys(t)
(* A task is not ended by another, only by the end of the process.         *)
LEMMA TaskEnds ==
  ASSUME Next, NEW s \in tasks, s \notin tasks'
  PROVE  Exit \/ Runs(s)
<1>1. User => Exit
  BY DEF User, LoginWithNsec, Unlock, CreateBackup, SubmitImport, Switch, SwitchTo,
         AddAccount, Reset, OpenImport, DismissImport, Start
<1>2. ~RunClosure
  BY DEF RunClosure, RunLoginFailed, RunLoggedIn, RunBootFailed, RunBooted, RunAdded,
         SwitchTo, RunBackedUp, RunRestored, RunMerge, RunImportEnded, RunImportDone,
         Start
<1>3. ASSUME NEW t \in tasks, Runs(t) PROVE t = s
  <2> USE DEF End, Become
  <2>1. CASE CreateVault(t) \/ SealKey(t) \/ OpenVault(t) \/ BootPresent(t)
             \/ BootStart(t) \/ BootImport(t)
    BY <2>1 DEF CreateVault, SealKey, OpenVault, BootPresent, BootStart, BootImport,
                BootReady
  <2>2. CASE SyncStart(t) \/ SyncHeal(t) \/ WriteVault(t) \/ FindSelf(t) \/ MakeSelf(t)
             \/ AddLogin(t)
    BY <2>2 DEF SyncStart, SyncHeal, WriteVault, FindSelf, MakeSelf, AddLogin, AddDone
  <2>3. CASE \/ CheckPassword(t) \/ ReadFile(t, "vault") \/ ReadFile(t, "home")
             \/ FinishBackup(t) \/ UnpackArchive(t) \/ RestoreFile(t)
             \/ FinishRestore(t) \/ ReadKeys(t)
    BY <2>3 DEF CheckPassword, ReadFile, FinishBackup, UnpackArchive, RestoreFile,
                FinishRestore, ReadKeys
  <2>4. QED
    BY <1>3, <2>1, <2>2, <2>3 DEF Runs
<1>4. Worker => \E t \in tasks : Runs(t)
  BY DEF Worker, Runs
<1>5. QED
  BY <1>1, <1>2, <1>3, <1>4 DEF Next

(* A merge waits for the tasks it has started.                             *)
LEMMA WaitingFinite ==
  ASSUME NEW k
  PROVE  IsFiniteSet(Waiting(k)) /\ Cardinality(Waiting(k)) \in Nat
BY FS_Subset, FS_CardinalityType DEF Waiting

(* A merge is counted down by each of its tasks once.                      *)
LEMMA TalliedStep == TypeOK /\ Refers /\ Tallied /\ Next => Tallied'
<1> SUFFICES ASSUME TypeOK, Refers, Tallied, Next, NEW k \in DOMAIN tallies'
             PROVE  tallies'[k].left = Cardinality(Waiting(k)')
  BY DEF Tallied, Waiting
<1>1. ~Exit
  BY DEF Exit
<1>2. DOMAIN tallies = 1..Len(tallies) /\ Len(tallies) \in Nat
  BY DEF TypeOK, Shows
<1>3. k \in Nat /\ k # 0
  <2>1. tallies' \in Seq([left : 0..Cardinality(Accounts), ok : BOOLEAN])
    BY ShowsTypes DEF Shows
  <2>2. QED
    BY <2>1
<1>4. ASSUME ~RunMerge, \A t \in tasks : ~AddLogin(t)
      PROVE  tallies' = tallies /\ Waiting(k)' = Waiting(k)
  <2>1. tallies' = tallies
    <3>1. ASSUME NEW a \in Accounts, Switch(a) PROVE tallies' = tallies
      BY <3>1 DEF Switch
    <3>2. CASE Reset \/ OpenImport \/ DismissImport
      BY <3>2 DEF Reset, OpenImport, DismissImport, session
    <3>3. CASE RunLoggedIn \/ RunBootFailed \/ RunBooted \/ RunAdded
      BY <3>3 DEF RunLoggedIn, RunBootFailed, RunBooted, RunAdded
    <3>4. CASE RunRestored \/ RunImportDone
      BY <3>4 DEF RunRestored, RunImportDone, session
    <3>5. QED
      BY <1>1, <1>4, <3>1, <3>2, <3>3, <3>4, ShowWriters
  <2>2. ASSUME NEW a \in Accounts, AddOf(k, a) \in tasks PROVE AddOf(k, a) \in tasks'
    <3>1. AddOf(k, a).kind = "add"
      BY DEF AddOf
    <3>2. ~Runs(AddOf(k, a))
      BY <1>4, <2>2, <3>1
         DEF Runs, Kinds, CreateVault, SealKey, OpenVault, BootPresent, BootStart,
             BootImport, SyncStart, SyncHeal, WriteVault, FindSelf, MakeSelf,
             CheckPassword, ReadFile, FinishBackup, UnpackArchive, RestoreFile,
             FinishRestore, ReadKeys
    <3>3. QED
      BY <1>1, <2>2, <3>2, TaskEnds
  <2>3. ASSUME NEW a \in Accounts, AddOf(k, a) \in tasks' PROVE AddOf(k, a) \in tasks
    <3>1. AddOf(k, a).kind = "add" /\ AddOf(k, a).merge # 0
      BY <1>3 DEF AddOf
    <3>2. ASSUME AddOf(k, a) \notin tasks PROVE \E b \in Accounts : AddOf(k, a) = AddOf(0, b)
      BY <1>4, <2>3, <3>1, <3>2, TaskSources DEF Starts, Write
    <3>3. QED
      BY <3>1, <3>2 DEF AddOf
  <2>4. QED
    BY <2>1, <2>2, <2>3 DEF Waiting
<1>5. ASSUME NEW t \in tasks, AddLogin(t) PROVE tallies'[k].left = Cardinality(Waiting(k)')
  <2>1. PICK ok \in BOOLEAN : AddDone(t, ok)
    BY <1>5 DEF AddLogin
  <2>2. t.kind = "add" /\ t.acc \in Accounts /\ t.merge \in Nat /\ t = AddOf(t.merge, t.acc)
    BY <1>5, TaskFields DEF AddLogin, Kinds, AddOf
  <2>3. tasks' = (tasks \ {t}) \/ tasks' = (tasks \ {t}) \cup {Write("backup", t.acc)}
    BY <2>1 DEF AddDone, End, Become
  <2>4. \A a : AddOf(k, a) \in tasks' <=> AddOf(k, a) \in tasks /\ AddOf(k, a) # t
    BY <2>3 DEF AddOf, Write
  <2>5. CASE k # t.merge
    <3>1. Waiting(k)' = Waiting(k)
      BY <2>2, <2>4, <2>5 DEF Waiting, AddOf
    <3>2. k \in DOMAIN tallies /\ tallies'[k] = tallies[k]
      <4>1. tallies' = tallies \/ \E n : tallies' = [tallies EXCEPT ![t.merge] = n]
        BY <2>1 DEF AddDone
      <4>2. QED
        BY <2>5, <4>1
    <3>3. QED
      BY <3>1, <3>2 DEF Tallied
  <2>6. CASE k = t.merge
    <3>1. Waiting(k)' = Waiting(k) \ {t.acc} /\ t.acc \in Waiting(k)
      <4>1. t.acc \in Waiting(k)
        BY <2>2, <2>6 DEF Waiting
      <4>2. \A a : AddOf(k, a) = t <=> a = t.acc
        BY <2>2, <2>6 DEF AddOf
      <4>3. QED
        BY <2>4, <4>1, <4>2 DEF Waiting
    <3>2. Cardinality(Waiting(k)') = Cardinality(Waiting(k)) - 1
      <4>1. IsFiniteSet(Waiting(k))
        BY WaitingFinite
      <4>2. Cardinality(Waiting(k) \ {t.acc}) = Cardinality(Waiting(k)) - 1
        BY <3>1, <4>1, FS_RemoveElement
      <4>3. QED
        BY <3>1, <4>2
    <3>3. /\ k \in DOMAIN tallies /\ Tally(tallies[k], ok).left = tallies[k].left - 1
      BY <1>3, <2>2, <2>6, TallyTypes DEF Tally
    <3>4. tallies'[k] = Tally(tallies[k], ok)
      BY <1>3, <2>1, <2>6, <3>3 DEF AddDone
    <3>5. QED
      BY <3>2, <3>3, <3>4 DEF Tallied
  <2>7. QED
    BY <2>5, <2>6
<1>6. CASE RunMerge
  <2> DEFINE new == Head(uiq).nsecs \ home
             n == Len(tallies) + 1
  <2>1. CASE UNCHANGED <<tallies, tasks>>
    BY <2>1 DEF Tallied, Waiting
  <2>2. CASE /\ tallies' = Append(tallies, [left |-> Cardinality(new), ok |-> TRUE])
             /\ tasks' = tasks \cup {[kind |-> "add", acc |-> a, merge |-> n] : a \in new}
    <3>1. new \subseteq Accounts
      BY <1>6, HeadFields DEF RunMerge
    <3>2. \A a : AddOf(n, a) \notin tasks
      <4> SUFFICES ASSUME NEW a, AddOf(n, a) \in tasks PROVE FALSE
        OBVIOUS
      <4>1. AddOf(n, a).kind = "add" /\ AddOf(n, a).merge = n
        BY DEF AddOf
      <4>2. AddOf(n, a).merge \in 0..Len(tallies)
        BY <4>1 DEF Refers, Kinds
      <4>3. QED
        BY <1>2, <4>1, <4>2
    <3>3. CASE k = n
      <4>1. tallies'[k].left = Cardinality(new)
        BY <1>2, <2>2, <3>3 DEF TypeOK, Shows
      <4>2. Waiting(k)' = new
        BY <2>2, <3>1, <3>2, <3>3 DEF Waiting, AddOf
      <4>3. QED
        BY <4>1, <4>2
    <3>4. CASE k # n
      <4>1. k \in DOMAIN tallies /\ tallies'[k] = tallies[k]
        BY <1>2, <2>2, <3>4 DEF TypeOK, Shows
      <4>2. Waiting(k)' = Waiting(k)
        BY <2>2, <3>4 DEF Waiting, AddOf
      <4>3. QED
        BY <4>1, <4>2 DEF Tallied
    <3>5. QED
      BY <3>3, <3>4
  <2>3. QED
    BY <1>6, <2>1, <2>2 DEF RunMerge, Start
<1>7. QED
  BY <1>4, <1>5, <1>6 DEF Tallied

(* The initial states, with and without a vault.                           *)
LEMMA InitTypes == Init => TypeOK /\ Refers /\ Tallied
<1> SUFFICES ASSUME Init PROVE TypeOK /\ Refers /\ Tallied
  OBVIOUS
<1>1. \A pw \in Passwords, accs \in SUBSET Accounts, a \in Accounts :
        Installed(pw, accs, a) \in Vault
  BY DEF Installed, Vault
<1>2. NoArchive \in [pw : Passwords \cup {None}, vault : Vault, home : SUBSET Accounts]
  BY VaultOps DEF NoArchive
<1>3. Stored
  <2>1. PICK pw \in Passwords, a \in Accounts :
       \/ /\ file = NoVault /\ home = {} /\ screen = "choose"
          /\ archive = [pw |-> pw, vault |-> Installed(pw, Accounts, a),
                        home |-> Accounts]
       \/ /\ file = Installed(pw, Accounts, a) /\ home = Accounts
          /\ screen = "unlock" /\ archive = NoArchive
       \/ /\ file = Installed(pw, {a}, a) /\ home = {a}
          /\ screen = "unlock" /\ archive = NoArchive
    BY DEF Init
  <2>2. file \in Vault /\ home \subseteq Accounts
    BY <1>1, <2>1, VaultOps
  <2>3. archive \in [pw : Passwords \cup {None}, vault : Vault, home : SUBSET Accounts]
    <3>1. [pw |-> pw, vault |-> Installed(pw, Accounts, a), home |-> Accounts]
            \in [pw : Passwords \cup {None}, vault : Vault, home : SUBSET Accounts]
      BY <1>1
    <3>2. QED
      BY <1>2, <2>1, <3>1
  <2>4. QED
    BY <2>2, <2>3 DEF Init, Stored
<1>4. Shows
  BY DEF Init, Shows
<1>5. Flags
  BY Zenon DEF Init, Flags
<1>6. Works
  BY DEF Init, Works, Kinds
<1>7. Refers
  BY DEF Init, Refers, Kinds, Posted, Inside
<1>8. Tallied
  BY DEF Init, Tallied
<1>9. QED
  BY <1>3, <1>4, <1>5, <1>6, <1>7, <1>8 DEF TypeOK

(* Types, references and tallies are kept together.                        *)
LEMMA TypesStep ==
  TypeOK /\ Refers /\ Tallied /\ [Next]_vars => (TypeOK /\ Refers /\ Tallied)'
<1>1. CASE Next
  BY <1>1, StoredTypes, ShowsTypes, FlagsTypes, WorksTypes, RefersStep, TalliedStep
     DEF TypeOK
<1>2. CASE UNCHANGED vars
  BY <1>2 DEF vars, TypeOK, Stored, Shows, Flags, Works, Kinds, Refers, Posted, Inside,
              Tallied, Waiting
<1>3. QED
  BY <1>1, <1>2

(* Every variable keeps its type, and a thread only ever writes a vault    *)
(* object that this process has opened: all operations, any budgets.       *)
THEOREM TypeCorrect == Spec => []TypeOK
BY InitTypes, TypesStep, PTL DEF Spec
-----------------------------------------------------------------------------
(* Spinners.                                                               *)

(* The queue gets shorter when the event loop runs a closure.              *)
LEMMA ClosureRuns ==
  ASSUME TypeOK, Next, uiq # <<>>, uiq' = Tail(uiq), ~Exit
  PROVE  RunClosure
<1>1. uiq' # uiq
  BY DEF TypeOK, Works
<1>2. User => uiq' = uiq \/ Exit
  BY DEF User, LoginWithNsec, Unlock, CreateBackup, SubmitImport, Switch, AddAccount,
         OpenImport, DismissImport, Reset
<1>3. ASSUME NEW c PROVE ~Post(c)
  BY Posting, Taking
<1>4. ASSUME NEW t \in tasks, Runs(t) PROVE uiq' = uiq \/ \E c : Post(c)
  <2>1. CASE \/ BootStart(t) \/ SyncStart(t) \/ SyncHeal(t) \/ WriteVault(t)
             \/ FindSelf(t) \/ MakeSelf(t) \/ ReadFile(t, "vault") \/ ReadFile(t, "home")
    BY <2>1
       DEF BootStart, SyncStart, SyncHeal, WriteVault, FindSelf, MakeSelf, ReadFile
  <2>2. CASE \/ CreateVault(t) \/ SealKey(t) \/ OpenVault(t) \/ BootPresent(t)
             \/ BootImport(t) \/ AddLogin(t)
    BY <2>2 DEF CreateVault, SealKey, OpenVault, BootPresent, BootImport, BootReady,
                AddLogin, AddDone
  <2>3. CASE \/ CheckPassword(t) \/ FinishBackup(t) \/ UnpackArchive(t) \/ RestoreFile(t)
             \/ FinishRestore(t) \/ ReadKeys(t)
    BY <2>3 DEF CheckPassword, FinishBackup, UnpackArchive, RestoreFile, FinishRestore,
                ReadKeys
  <2>4. QED
    BY <1>4, <2>1, <2>2, <2>3 DEF Runs
<1>5. Worker => \E t \in tasks : Runs(t)
  BY DEF Worker, Runs
<1>6. QED
  BY <1>1, <1>2, <1>3, <1>4, <1>5 DEF Next

(* A closure stays in the queue until the event loop runs it.              *)
LEMMA PostedStays ==
  ASSUME TypeOK, Next, ~Exit, NEW ks, Posted(ks)
  PROVE  \/ Posted(ks)'
         \/ uiq # <<>> /\ uiq' = Tail(uiq) /\ Head(uiq).kind \in ks
<1>1. PICK i \in DOMAIN uiq : uiq[i].kind \in ks
  BY DEF Posted
<1>2. CASE uiq' = uiq
  BY <1>1, <1>2 DEF Posted
<1>3. ASSUME NEW c, Post(c) PROVE Posted(ks)'
  BY <1>1, <1>3, Posting DEF Posted
<1>4. CASE uiq # <<>> /\ uiq' = Tail(uiq)
  BY <1>1, <1>4, Taking DEF Posted
<1>5. QED
  BY <1>2, <1>3, <1>4, ClosureSources

(* A closure that has been posted is in the queue.                         *)
LEMMA PostedNow ==
  ASSUME TypeOK, NEW ks, NEW c, Post(c), c.kind \in ks
  PROVE  Posted(ks)'
BY Posting DEF Posted

(* A task of a kind in ks.                                                 *)
LEMMA TaskNow ==
  ASSUME NEW ks, NEW s \in tasks', s.kind \in ks
  PROVE  Kinds(ks)' # {}
BY DEF Kinds

(* The spinner of the login screens.                                       *)
LEMMA BusyEnds ==
  ASSUME TypeOK, Next, SpinnersEnd, busy'
  PROVE  \/ Kinds({"create", "seal", "open"})' # {}
         \/ Posted({"loggedIn", "loginFailed"})'
<1> DEFINE Goal == \/ Kinds({"create", "seal", "open"})' # {}
                   \/ Posted({"loggedIn", "loginFailed"})'
<1>1. ~Exit
  BY DEF Exit
<1>2. ~RunLoginFailed /\ ~RunLoggedIn
  BY DEF RunLoginFailed, RunLoggedIn
<1>3. CASE ~busy
  <2>1. ASSUME NEW pw \in Passwords, NEW a \in Accounts, LoginWithNsec(a, pw) PROVE Goal
    <3>1. [kind |-> "create", acc |-> a, pw |-> pw] \in tasks'
      BY <2>1 DEF LoginWithNsec, Start
    <3>2. QED
      BY <3>1, TaskNow
  <2>2. ASSUME NEW pw \in Passwords, Unlock(pw) PROVE Goal
    <3>1. [kind |-> "open", pw |-> pw] \in tasks'
      BY <2>2 DEF Unlock, Start
    <3>2. QED
      BY <3>1, TaskNow
  <2>3. CASE RunRestored
    <3>1. [kind |-> "open", pw |-> Head(uiq).pw] \in tasks'
      BY <2>3 DEF RunRestored, Start
    <3>2. QED
      BY <3>1, TaskNow
  <2>4. ASSUME NEW pw \in Passwords PROVE ~CreateBackup(pw) /\ ~SubmitImport(pw)
    BY <1>3 DEF CreateBackup, SubmitImport
  <2>5. ASSUME NEW a \in Accounts PROVE ~Switch(a) /\ ~AddAccount(a)
    BY <1>3 DEF Switch, AddAccount, dialogs
  <2>6. ~Reset /\ ~OpenImport /\ ~DismissImport
    BY <1>3 DEF Reset, OpenImport, DismissImport, dialogs
  <2>7. RunClosure => RunRestored
    BY <1>2, <1>3
       DEF RunClosure, RunBootFailed, RunBooted, RunAdded, RunBackedUp, RunMerge,
           RunImportEnded, RunImportDone, dialogs
  <2>8. ~Worker
    BY <1>3
       DEF Worker, CreateVault, SealKey, OpenVault, BootPresent, BootStart, BootImport,
           SyncStart, SyncHeal, WriteVault, FindSelf, MakeSelf, CheckPassword, ReadFile,
           FinishBackup, UnpackArchive, RestoreFile, FinishRestore, ReadKeys, AddLogin,
           dialogs
  <2>9. QED
    BY <1>1, <2>1, <2>2, <2>3, <2>4, <2>5, <2>6, <2>7, <2>8 DEF Next, User
<1>4. ASSUME NEW s \in tasks, s.kind \in {"create", "seal", "open"} PROVE Goal
  <2>1. CASE s \in tasks'
    BY <1>4, <2>1 DEF Kinds
  <2>2. CASE CreateVault(s)
    <3>1. \/ [kind |-> "seal", acc |-> s.acc, obj |-> Len(mem) + 1] \in tasks'
          \/ Post([kind |-> "loginFailed"])
      BY <2>2 DEF CreateVault, Become
    <3>2. QED
      BY <3>1, TaskNow, PostedNow
  <2>3. CASE SealKey(s)
    BY <2>3, PostedNow DEF SealKey
  <2>4. CASE OpenVault(s)
    BY <2>4, PostedNow DEF OpenVault
  <2>5. QED
    BY <1>1, <1>4, <2>1, <2>2, <2>3, <2>4, TaskEnds
       DEF Runs, Kinds, BootPresent, BootStart, BootImport, SyncStart, SyncHeal,
           WriteVault, FindSelf, MakeSelf, AddLogin, CheckPassword, ReadFile,
           FinishBackup, UnpackArchive, RestoreFile, FinishRestore, ReadKeys
<1>5. CASE Posted({"loggedIn", "loginFailed"})
  <2>1. CASE uiq # <<>> /\ uiq' = Tail(uiq) /\ Head(uiq).kind \in {"loggedIn", "loginFailed"}
    <3>1. RunClosure
      BY <1>1, <2>1, ClosureRuns
    <3>2. RunLoginFailed \/ RunLoggedIn
      BY <2>1, <3>1
         DEF RunClosure, RunBootFailed, RunBooted, RunAdded, RunBackedUp, RunRestored,
             RunMerge, RunImportEnded, RunImportDone
    <3>3. QED
      BY <1>2, <3>2
  <2>2. QED
    BY <1>1, <1>5, <2>1, PostedStays
<1>6. QED
  BY <1>3, <1>4, <1>5 DEF SpinnersEnd, Kinds

(* The spinner of an import: a merge is counted to its end.                *)
LEMMA ImportingEnds ==
  ASSUME TypeOK, Refers, Tallied, Next, SpinnersEnd, importing'
  PROVE  \/ Kinds({"unpack", "restore", "readKeys"})' # {}
         \/ \E t \in Kinds({"add"})' : t.merge # 0
         \/ Posted({"restored", "merge", "importEnded", "importDone"})'
<1> DEFINE Ends == {"restored", "merge", "importEnded", "importDone"}
           Goal == \/ Kinds({"unpack", "restore", "readKeys"})' # {}
                   \/ \E t \in Kinds({"add"})' : t.merge # 0
                   \/ Posted(Ends)'
<1>1. ~Exit
  BY DEF Exit
<1>2. ~RunRestored /\ ~RunImportEnded /\ ~RunImportDone
  BY DEF RunRestored, RunImportEnded, RunImportDone
<1>3. CASE ~importing
  <2>1. ASSUME NEW pw \in Passwords, SubmitImport(pw) PROVE Goal
    <3>1. \/ tasks' = tasks \cup {[kind |-> "readKeys", pw |-> pw]}
          \/ tasks' = tasks \cup {[kind |-> "unpack", pw |-> pw]}
      BY <2>1, Zenon DEF SubmitImport, Start
    <3>2. \/ [kind |-> "readKeys", pw |-> pw] \in tasks'
          \/ [kind |-> "unpack", pw |-> pw] \in tasks'
      BY <3>1
    <3>3. QED
      BY <3>2, TaskNow
  <2>2. ASSUME NEW pw \in Passwords
        PROVE  ~CreateBackup(pw) /\ ~Unlock(pw) /\ \A a \in Accounts : ~LoginWithNsec(a, pw)
    BY <1>3 DEF CreateBackup, Unlock, LoginWithNsec
  <2>3. ASSUME NEW a \in Accounts PROVE ~Switch(a) /\ ~AddAccount(a)
    BY <1>3 DEF Switch, AddAccount, dialogs
  <2>4. ~Reset /\ ~OpenImport /\ ~DismissImport
    BY <1>3 DEF Reset, OpenImport, DismissImport, dialogs
  <2>5. ~RunClosure
    BY <1>2, <1>3
       DEF RunClosure, RunLoginFailed, RunLoggedIn, RunBootFailed, RunBooted, RunAdded,
           RunBackedUp, RunMerge, dialogs
  <2>6. ~Worker
    BY <1>3
       DEF Worker, CreateVault, SealKey, OpenVault, BootPresent, BootStart, BootImport,
           SyncStart, SyncHeal, WriteVault, FindSelf, MakeSelf, CheckPassword, ReadFile,
           FinishBackup, UnpackArchive, RestoreFile, FinishRestore, ReadKeys, AddLogin,
           dialogs
  <2>7. QED
    BY <1>1, <2>1, <2>2, <2>3, <2>4, <2>5, <2>6 DEF Next, User
<1>4. ASSUME NEW s \in tasks, s.kind \in {"unpack", "restore", "readKeys"} PROVE Goal
  <2>1. CASE s \in tasks'
    BY <1>4, <2>1 DEF Kinds
  <2>2. CASE UnpackArchive(s)
    <3>1. \/ \E todo : [kind |-> "restore", pw |-> s.pw, todo |-> todo] \in tasks'
          \/ Post([kind |-> "importEnded"])
      BY <2>2 DEF UnpackArchive, Become, Ended
    <3>2. QED
      BY <3>1, TaskNow, PostedNow
  <2>3. CASE RestoreFile(s)
    <3>1. CASE Post(Ended)
      BY <3>1, PostedNow DEF Ended
    <3>2. CASE Become(s, {[s EXCEPT !.todo = Tail(@)]})
      <4>1. s = [kind |-> "restore", pw |-> s.pw, todo |-> s.todo]
        BY <2>3, TaskFields DEF RestoreFile, Kinds
      <4>2. [s EXCEPT !.todo = Tail(@)].kind = "restore"
        BY <4>1
      <4>3. QED
        BY <3>2, <4>2 DEF Become, Kinds
    <3>3. QED
      BY <2>3, <3>1, <3>2 DEF RestoreFile
  <2>4. CASE FinishRestore(s)
    BY <2>4, PostedNow DEF FinishRestore
  <2>5. CASE ReadKeys(s)
    BY <2>5, PostedNow DEF ReadKeys, Ended
  <2>6. QED
    BY <1>1, <1>4, <2>1, <2>2, <2>3, <2>4, <2>5, TaskEnds
       DEF Runs, Kinds, CreateVault, SealKey, OpenVault, BootPresent, BootStart,
           BootImport, SyncStart, SyncHeal, WriteVault, FindSelf, MakeSelf, AddLogin,
           CheckPassword, ReadFile, FinishBackup
<1>5. ASSUME NEW s \in tasks, s.kind = "add", s.merge # 0 PROVE Goal
  <2>1. CASE s \in tasks'
    BY <1>5, <2>1 DEF Kinds
  <2>2. CASE AddLogin(s)
    <3>1. PICK ok \in BOOLEAN : AddDone(s, ok)
      BY <2>2 DEF AddLogin
    <3> DEFINE k == s.merge
    <3>2. k \in DOMAIN tallies /\ tallies' = [tallies EXCEPT ![k] = Tally(tallies[k], ok)]
      BY <1>5, <3>1, TallyTypes DEF AddDone
    <3>3. CASE Tally(tallies[k], ok).left = 0
      BY <1>5, <3>1, <3>3, PostedNow DEF AddDone
    <3>4. CASE Tally(tallies[k], ok).left # 0
      <4>1. k \in DOMAIN tallies' /\ tallies'[k].left # 0
        BY <3>2, <3>4
      <4>2. Cardinality(Waiting(k)') # 0
        BY <4>1, TalliedStep DEF Tallied, Waiting
      <4>3. Waiting(k)' # {}
        BY <4>2, FS_EmptySet
      <4>4. PICK a \in Accounts : AddOf(k, a) \in tasks'
        BY <4>3 DEF Waiting
      <4>5. AddOf(k, a).kind = "add" /\ AddOf(k, a).merge # 0
        BY <1>5 DEF AddOf
      <4>6. QED
        BY <4>4, <4>5 DEF Kinds
    <3>5. QED
      BY <3>3, <3>4
  <2>3. QED
    BY <1>1, <1>5, <2>1, <2>2, TaskEnds
       DEF Runs, Kinds, CreateVault, SealKey, OpenVault, BootPresent, BootStart,
           BootImport, SyncStart, SyncHeal, WriteVault, FindSelf, MakeSelf,
           CheckPassword, ReadFile, FinishBackup, UnpackArchive, RestoreFile,
           FinishRestore, ReadKeys
<1>6. CASE Posted(Ends)
  <2>1. CASE uiq # <<>> /\ uiq' = Tail(uiq) /\ Head(uiq).kind \in Ends
    <3>1. RunClosure
      BY <1>1, <2>1, ClosureRuns
    <3>2. RunMerge
      BY <1>2, <2>1, <3>1
         DEF RunClosure, RunLoginFailed, RunLoggedIn, RunBootFailed, RunBooted, RunAdded,
             RunBackedUp
    <3>3. PICK a \in Head(uiq).nsecs \ home :
            [kind |-> "add", acc |-> a, merge |-> Len(tallies) + 1] \in tasks'
      BY <3>2 DEF RunMerge, Start
    <3>4. Len(tallies) + 1 # 0
      BY DEF TypeOK, Shows
    <3>5. QED
      BY <3>3, <3>4 DEF Kinds
  <2>2. QED
    BY <1>1, <1>6, <2>1, PostedStays
<1>7. QED
  BY <1>3, <1>4, <1>5, <1>6 DEF SpinnersEnd, Kinds

(* The spinner of a backup.                                                *)
LEMMA BackingEnds ==
  ASSUME TypeOK, Next, SpinnersEnd, backing'
  PROVE  Kinds({"check", "backup"})' # {} \/ Posted({"backedUp"})'
<1> DEFINE Goal == Kinds({"check", "backup"})' # {} \/ Posted({"backedUp"})'
<1>1. ~Exit /\ ~RunBackedUp
  BY DEF Exit, RunBackedUp
<1>2. CASE ~backing
  <2>1. ASSUME NEW pw \in Passwords, CreateBackup(pw) PROVE Goal
    <3>1. [kind |-> "check", pw |-> pw] \in tasks'
      BY <2>1 DEF CreateBackup, Start
    <3>2. QED
      BY <3>1, TaskNow
  <2>2. ASSUME NEW pw \in Passwords
        PROVE  ~SubmitImport(pw) /\ ~Unlock(pw) /\ \A a \in Accounts : ~LoginWithNsec(a, pw)
    BY <1>2 DEF SubmitImport, Unlock, LoginWithNsec
  <2>3. ASSUME NEW a \in Accounts PROVE ~Switch(a) /\ ~AddAccount(a)
    BY <1>2 DEF Switch, AddAccount, dialogs
  <2>4. ~Reset /\ ~OpenImport /\ ~DismissImport
    BY <1>2 DEF Reset, OpenImport, DismissImport, dialogs
  <2>5. ~RunClosure
    BY <1>1, <1>2
       DEF RunClosure, RunLoginFailed, RunLoggedIn, RunBootFailed, RunBooted, RunAdded,
           RunRestored, RunMerge, RunImportEnded, RunImportDone, dialogs
  <2>6. ~Worker
    BY <1>2
       DEF Worker, CreateVault, SealKey, OpenVault, BootPresent, BootStart, BootImport,
           SyncStart, SyncHeal, WriteVault, FindSelf, MakeSelf, CheckPassword, ReadFile,
           FinishBackup, UnpackArchive, RestoreFile, FinishRestore, ReadKeys, AddLogin,
           dialogs
  <2>7. QED
    BY <1>1, <2>1, <2>2, <2>3, <2>4, <2>5, <2>6 DEF Next, User
<1>3. ASSUME NEW s \in tasks, s.kind \in {"check", "backup"} PROVE Goal
  <2>1. CASE s \in tasks'
    BY <1>3, <2>1 DEF Kinds
  <2>2. CASE CheckPassword(s)
    <3>1. \/ \E got : [kind |-> "backup", left |-> {"vault", "home"}, got |-> got]
                       \in tasks'
          \/ Post([kind |-> "backedUp"])
      BY <2>2 DEF CheckPassword, Become
    <3>2. QED
      BY <3>1, TaskNow, PostedNow
  <2>3. CASE ReadFile(s, "vault") \/ ReadFile(s, "home")
    <3>1. PICK l, g : s = [kind |-> "backup", left |-> l, got |-> g]
      BY <2>3, TaskFields DEF ReadFile, Kinds
    <3>2. \A x, y : [s EXCEPT !.left = x, !.got = y].kind = "backup"
      BY <3>1
    <3>3. \E x, y : [s EXCEPT !.left = x, !.got = y] \in tasks'
      BY <2>3 DEF ReadFile, Become
    <3>4. QED
      BY <3>2, <3>3 DEF Kinds
  <2>4. CASE FinishBackup(s)
    BY <2>4, PostedNow DEF FinishBackup
  <2>5. QED
    BY <1>1, <1>3, <2>1, <2>2, <2>3, <2>4, TaskEnds
       DEF Runs, Kinds, CreateVault, SealKey, OpenVault, BootPresent, BootStart,
           BootImport, SyncStart, SyncHeal, WriteVault, FindSelf, MakeSelf, AddLogin,
           UnpackArchive, RestoreFile, FinishRestore, ReadKeys
<1>4. CASE Posted({"backedUp"})
  <2>1. CASE uiq # <<>> /\ uiq' = Tail(uiq) /\ Head(uiq).kind \in {"backedUp"}
    <3>1. RunClosure
      BY <1>1, <2>1, ClosureRuns
    <3>2. RunBackedUp
      BY <2>1, <3>1
         DEF RunClosure, RunLoginFailed, RunLoggedIn, RunBootFailed, RunBooted, RunAdded,
             RunRestored, RunMerge, RunImportEnded, RunImportDone
    <3>3. QED
      BY <1>1, <3>2
  <2>2. QED
    BY <1>1, <1>4, <2>1, PostedStays
<1>5. QED
  BY <1>2, <1>3, <1>4 DEF SpinnersEnd, Kinds

(* A spinner that shows has something under way that will stop it.        *)
LEMMA SpinnersStep ==
  TypeOK /\ Refers /\ Tallied /\ SpinnersEnd /\ [Next]_vars => SpinnersEnd'
<1>1. CASE Next
  BY <1>1, BusyEnds, ImportingEnds, BackingEnds DEF SpinnersEnd
<1>2. CASE UNCHANGED vars
  BY <1>2 DEF vars, SpinnersEnd, Kinds, Posted
<1>3. QED
  BY <1>1, <1>2

(* Whatever fails, and however the threads and closures of the login       *)
(* screens, an import or a backup are interleaved: a spinner that shows    *)
(* has something under way that will stop it.                              *)
THEOREM SpinnersStop == Spec => []SpinnersEnd
<1>1. Init => SpinnersEnd
  BY Zenon DEF Init, SpinnersEnd
<1>2. QED
  BY <1>1, SpinnersStep, InitTypes, TypesStep, PTL DEF Spec
==============================================================================
