---------------------------- MODULE AccountsProofs ----------------------------
(***************************************************************************)
(* TLAPS proofs about Accounts, for every value of its constants: the      *)
(* safety properties.                                                      *)
(*                                                                         *)
(* Everything rests on where a login, a boot or a restore can be: it is    *)
(* one thing, a task or a closure, that is handed from one to the next.    *)
(* That holds until a restore or a reset runs next to a login (behind), so *)
(* most of the invariant is about the states before that.                  *)
(***************************************************************************)
EXTENDS AccountsTypes

USE AccountsConstantsOK
-----------------------------------------------------------------------------
(* The inductive invariant.                                                *)

(* A backup is one task or one closure, and shows its spinner.             *)
OneBackup ==
  /\ \A t \in Kinds({"check", "backup"}) :
       /\ backing /\ ~Posted({"backedUp"})
       /\ \A s \in Kinds({"check", "backup"}) : s = t
  /\ \A i \in DOMAIN uiq : uiq[i].kind = "backedUp" =>
       /\ backing
       /\ \A j \in DOMAIN uiq : uiq[j].kind = "backedUp" => i = j

(* The steps of a login, of a boot and of a restore: there is one.         *)
LoginTasks    == {"unpack", "restore", "seal", "open", "boot", "import"}
LoginClosures == {"restored", "loggedIn", "booted", "bootFailed"}
OneLogin ==
  /\ \A s, t \in Kinds(LoginTasks) : s = t
  /\ Kinds(LoginTasks) # {} => ~Posted(LoginClosures)
  /\ \A i, j \in DOMAIN uiq :
       uiq[i].kind \in LoginClosures /\ uiq[j].kind \in LoginClosures => i = j

(* The screen each task and closure is on.                                 *)
Placed ==
  /\ \A t \in Kinds({"unpack", "restore"}) :
       screen = "choose" /\ modal = "restore"
  /\ Kinds({"seal"}) # {} \/ Posted({"restored"}) => screen = "choose"
  /\ Kinds({"open"}) # {} \/ Posted({"loggedIn"}) =>
       screen \in {"choose", "unlock"}
  /\ Kinds({"boot", "import"}) # {} \/ Posted({"booted", "bootFailed"}) =>
       screen = "booting"
  /\ \/ Kinds({"write", "ensure", "makeSelf", "add", "check", "backup"}) # {}
     \/ Posted({"added", "importDone", "backedUp"})
     => screen = "ready"
  /\ Kinds({"sync", "heal"}) # {} => screen = "ready" \/ Posted({"booted"})

(* An install without a vault is creating one, and shows its spinner, or   *)
(* restoring one.                                                          *)
Creating ==
  file = NoVault =>
    /\ screen = "choose"
    /\ Kinds(LoginTasks \ {"unpack", "restore"}) = {} /\ ~Posted(LoginClosures)
    /\ \A t \in Kinds({"create"}) :
         /\ busy /\ Kinds(LoginTasks) = {} /\ ~Posted({"loginFailed"})
         /\ \A s \in Kinds({"create"}) : s = t
    /\ \A i \in DOMAIN uiq : uiq[i].kind = "loginFailed" =>
         /\ busy
         /\ \A j \in DOMAIN uiq : uiq[j].kind = "loginFailed" => i = j

(* The unlock screen waits for the one thing it has asked for.             *)
Unlocking ==
  screen = "unlock" =>
    /\ modal = "closed"
    /\ \A t \in tasks : t.kind = "open" /\ busy /\ uiq = <<>>
    /\ \A i \in DOMAIN uiq :
         uiq[i].kind \in {"loggedIn", "loginFailed"} /\ busy /\ Len(uiq) = 1

(* A restore finds no vault and leaves that of the archive.                *)
Restores ==
  /\ \A t \in Kinds({"unpack"}) : archive # NoArchive /\ file = NoVault
  /\ \A t \in Kinds({"restore"}) :
       /\ archive # NoArchive
       /\ file = IF t.todo \in {<<"home">>, <<>>} THEN archive.vault ELSE NoVault
  /\ Posted({"restored"}) => archive # NoArchive /\ file = archive.vault

(* A vault object is the file from the login until a write has failed or   *)
(* two have overtaken each other, and never has less.                      *)
Login ==
  /\ \A t \in Kinds({"seal"}) :
       mem[t.obj] = file /\ file # NoVault /\ {file.nsec, file.active} = {None}
  /\ \A i \in DOMAIN uiq : uiq[i].kind = "loggedIn" =>
       mem[uiq[i].obj] = file /\ file.nsec # None /\ uiq[i].hint = file.active
  /\ \A t \in Kinds({"boot", "import"}) : t.hint = file.active
Object ==
  /\ raced => screen = "ready"
  /\ screen \in Inside =>
       LET v == mem[cell] IN
       /\ file.nsec # None /\ v.nsec = file.nsec /\ v.pw = file.pw
       /\ file.backups \subseteq v.backups /\ home \ orphans \subseteq v.secrets
       /\ raced \/ v = file
  /\ \A t \in Kinds({"boot", "import", "sync", "heal", "write"}) : t.obj = cell
  /\ \A i \in DOMAIN uiq : uiq[i].kind = "booted" => uiq[i].obj = cell

(* An archive, and what a backup has read of it, opens and has secrets.    *)
Archived ==
  archive # NoArchive =>
    /\ Opens(archive.vault, archive.pw) /\ archive.vault.nsec # None
    /\ archive.home \ bare \subseteq archive.vault.secrets
Reading ==
  \A t \in Kinds({"backup"}) :
    /\ t.got.pw = file.pw
    /\ "vault" \notin t.left =>
         /\ Opens(t.got.vault, t.got.pw) /\ t.got.vault.nsec # None
         /\ torn \/ home \ orphans \subseteq t.got.vault.secrets
    /\ "home" \notin t.left => torn \/ t.got.home = home

(* The account of the backend is on disk or will be healed.                *)
Healed(acc) == acc \in home \/ Kinds({"heal"}) # {} \/ failed
Primary ==
  /\ \A s, t \in Kinds({"sync", "heal"}) : s = t
  /\ screen = "ready" =>
       /\ Healed(primary) /\ active \in Accounts
       /\ \A t \in Kinds({"sync", "heal"}) : t.acc = primary
  /\ \A i \in DOMAIN uiq : uiq[i].kind = "booted" =>
       /\ Healed(uiq[i].acc)
       /\ file.active = None => uiq[i].active = uiq[i].acc
       /\ \A t \in Kinds({"sync", "heal"}) : t.acc = uiq[i].acc

(* Who will make a self-chat does it for an account that has none.         *)
SelfChats ==
  strayed \/ /\ \A a \in Accounts : selfChats[a] <= 1
             /\ Kinds({"makeSelf"}) # {} =>
                  selfChats[active] = 0 /\ Kinds({"ensure"}) = {}

(* A pending record of the active account is of the one that is active.    *)
Recorded ==
  screen = "ready" /\ ~raced =>
    /\ \A t \in Kinds({"write"}) : t.key = "active" => t.acc = active
    /\ (\A t \in Kinds({"write"}) : t.key # "active") =>
         file.active \in {active, None} /\ (file.active = None => active = primary)

Calm == /\ OneLogin /\ Placed /\ Creating /\ Unlocking /\ Restores /\ Login
        /\ Object /\ Archived /\ Reading /\ Primary /\ SelfChats /\ Recorded
        /\ AccountsHaveSecrets /\ VaultHasKey

AccountsInv == TypeOK /\ Refers /\ Tallied /\ OneBackup /\ SpinnersEnd
               /\ (~behind => Calm)
-----------------------------------------------------------------------------
(* Backups: there is one at a time.                                        *)

(* Only the dialog starts a backup and only its end stops the spinner.     *)
LEMMA BackingWriters ==
  ASSUME Next, ~Exit, ~RunBackedUp, \A pw \in Passwords : ~CreateBackup(pw)
  PROVE  backing' = backing
<1> USE DEF dialogs
<1>1. User => backing' = backing
  BY DEF User, LoginWithNsec, Unlock, SubmitImport, Switch, AddAccount, Reset,
         OpenImport, DismissImport
<1>2. RunClosure => backing' = backing
  BY DEF RunClosure, RunLoginFailed, RunLoggedIn, RunBootFailed, RunBooted, RunAdded,
         RunRestored, RunMerge, RunImportEnded, RunImportDone
<1>3. Worker => backing' = backing
  BY DEF Worker, CreateVault, SealKey, OpenVault, BootPresent, BootStart, BootImport,
         SyncStart, SyncHeal, WriteVault, FindSelf, MakeSelf, AddLogin, CheckPassword,
         ReadFile, FinishBackup, UnpackArchive, RestoreFile, FinishRestore, ReadKeys
<1>4. QED
  BY <1>1, <1>2, <1>3 DEF Next

(* No second backup starts before the first has been shown to have ended.  *)
LEMMA OneBackupStep == TypeOK /\ OneBackup /\ Next => OneBackup'
<1> SUFFICES ASSUME TypeOK, OneBackup, Next PROVE OneBackup'
  OBVIOUS
<1> DEFINE Backups == Kinds({"check", "backup"})
<1>1. CASE Exit
  BY <1>1 DEF Exit, OneBackup, Kinds, Posted
<1>2. ASSUME NEW pw \in Passwords, CreateBackup(pw) PROVE OneBackup'
  <2>1. ~backing /\ backing' /\ uiq' = uiq
        /\ tasks' = tasks \cup {[kind |-> "check", pw |-> pw]}
    BY <1>2 DEF CreateBackup, Start
  <2>2. Backups = {} /\ \A i \in DOMAIN uiq : uiq[i].kind # "backedUp"
    BY <2>1 DEF OneBackup
  <2>3. Backups' = {[kind |-> "check", pw |-> pw]}
    BY <2>1, <2>2 DEF Kinds
  <2>4. QED
    BY <2>1, <2>2, <2>3 DEF OneBackup, Posted
<1>3. ASSUME NEW t \in Backups, NEW s, Become(t, {s}), uiq' = uiq, backing' = backing
      PROVE  OneBackup'
  <2>1. Backups = {t} /\ backing /\ \A i \in DOMAIN uiq : uiq[i].kind # "backedUp"
    BY <1>3 DEF OneBackup, Posted
  <2>2. Backups' \subseteq {s}
    BY <1>3, <2>1 DEF Become, Kinds
  <2>3. QED
    BY <1>3, <2>1, <2>2 DEF OneBackup, Posted
<1>4. ASSUME NEW t \in Backups, End(t), Post([kind |-> "backedUp"]), backing' = backing
      PROVE  OneBackup'
  <2>1. Backups = {t} /\ backing /\ \A i \in DOMAIN uiq : uiq[i].kind # "backedUp"
    BY <1>4 DEF OneBackup, Posted
  <2>2. Backups' = {}
    BY <1>4, <2>1 DEF End, Kinds
  <2>3. \A i \in DOMAIN uiq' : uiq'[i].kind = "backedUp" => i = Len(uiq) + 1
    BY <1>4, <2>1, Posting
  <2>4. QED
    BY <1>4, <2>1, <2>2, <2>3 DEF OneBackup
<1>5. CASE RunBackedUp
  <2>1. uiq # <<>> /\ uiq' = Tail(uiq) /\ uiq[1].kind = "backedUp" /\ tasks' = tasks
        /\ 1 \in DOMAIN uiq
    BY <1>5, HeadFields DEF RunBackedUp
  <2>2. Backups = {} /\ \A i \in DOMAIN uiq : uiq[i].kind = "backedUp" => i = 1
    BY <2>1 DEF OneBackup, Posted
  <2>3. Backups' = {} /\ \A i \in DOMAIN uiq' : uiq'[i].kind # "backedUp"
    BY <2>1, <2>2, Taking DEF Kinds
  <2>4. QED
    BY <2>3 DEF OneBackup
<1>6. ASSUME NEW t \in tasks, CheckPassword(t) PROVE OneBackup'
  <2>1. t \in Backups /\ backing' = backing
    BY <1>6 DEF CheckPassword, Kinds, dialogs
  <2>2. \/ \E s : Become(t, {s}) /\ uiq' = uiq
        \/ End(t) /\ Post([kind |-> "backedUp"])
    BY <1>6 DEF CheckPassword
  <2>3. QED
    BY <1>3, <1>4, <2>1, <2>2
<1>7. ASSUME NEW t \in tasks, ReadFile(t, "vault") \/ ReadFile(t, "home") PROVE OneBackup'
  <2>1. t \in Backups /\ backing' = backing /\ uiq' = uiq /\ \E s : Become(t, {s})
    BY <1>7 DEF ReadFile, Kinds, dialogs
  <2>2. QED
    BY <1>3, <2>1
<1>8. ASSUME NEW t \in tasks, FinishBackup(t) PROVE OneBackup'
  <2>1. t \in Backups /\ backing' = backing /\ End(t) /\ Post([kind |-> "backedUp"])
    BY <1>8 DEF FinishBackup, Kinds, dialogs
  <2>2. QED
    BY <1>4, <2>1
<1>9. ASSUME ~Exit, ~RunBackedUp, \A pw \in Passwords : ~CreateBackup(pw),
             \A t \in tasks : /\ ~CheckPassword(t) /\ ~FinishBackup(t)
                              /\ ~ReadFile(t, "vault") /\ ~ReadFile(t, "home")
      PROVE  OneBackup'
  <2>1. backing' = backing
    BY <1>9, BackingWriters
  <2>2. Backups' \subseteq Backups
    <3>1. ASSUME NEW s \in tasks', s \notin tasks PROVE s.kind \notin {"check", "backup"}
      <4>1. Starts(s)
        BY <3>1, TaskSources
      <4>2. QED
        BY <1>9, <4>1 DEF Starts, Write, AddOf
    <3>2. QED
      BY <3>1 DEF Kinds
  <2>3. ASSUME NEW t \in tasks, NEW c, Post(c), Posts(t, c) PROVE OneBackup'
    <3>1. c.kind # "backedUp"
      BY <1>9, <2>3 DEF Posts
    <3>2. \A i \in DOMAIN uiq' : uiq'[i].kind = "backedUp" =>
            i \in DOMAIN uiq /\ uiq[i].kind = "backedUp"
      BY <2>3, <3>1, Posting
    <3>3. QED
      BY <2>1, <2>2, <3>2 DEF OneBackup, Posted
  <2>4. CASE uiq # <<>> /\ uiq' = Tail(uiq)
    <3>1. \A i \in DOMAIN uiq' : i + 1 \in DOMAIN uiq /\ uiq'[i] = uiq[i + 1] /\ i \in Nat
      BY <2>4, Taking
    <3>2. QED
      BY <2>1, <2>2, <3>1 DEF OneBackup, Posted
  <2>5. CASE uiq' = uiq
    BY <2>1, <2>2, <2>5 DEF OneBackup, Posted
  <2>6. QED
    BY <1>9, <2>3, <2>4, <2>5, ClosureSources
<1>10. QED
  BY <1>1, <1>2, <1>5, <1>6, <1>7, <1>8, <1>9
-----------------------------------------------------------------------------
(* Before a restore or a reset has run next to a login.                    *)

CalmStep == /\ TypeOK /\ Refers /\ OneBackup /\ Calm /\ ~behind
            /\ Next /\ ~behind' /\ ~Exit

(* The unlock screen with nothing under way.                               *)
LEMMA Idle ==
  ASSUME TypeOK, Calm, screen = "unlock", ~busy
  PROVE  tasks = {} /\ uiq = <<>> /\ DOMAIN uiq = {}
<1>1. tasks = {} /\ DOMAIN uiq = {}
  BY DEF Calm, Unlocking
<1>2. QED
  BY <1>1 DEF TypeOK, Works

(* Where there is no vault there is no login, only a restore.              *)
LEMMA NoVaultYet ==
  ASSUME Calm, file = NoVault
  PROVE  /\ \A t \in tasks : t.kind \in LoginTasks => t.kind \in {"unpack", "restore"}
         /\ \A i \in DOMAIN uiq : uiq[i].kind \notin LoginClosures
         /\ screen = "choose"
BY DEF Calm, Creating, Kinds, Posted, LoginTasks

(* A login task that starts is the one there is.                           *)
LEMMA NewLogin ==
  ASSUME CalmStep, NEW s \in tasks', s \notin tasks, s.kind \in LoginTasks
  PROVE  /\ \A r \in tasks' : r.kind \in LoginTasks => r = s
         /\ \A i \in DOMAIN uiq' : uiq'[i].kind \notin LoginClosures
<1> USE DEF CalmStep
<1> DEFINE Goal == /\ \A r \in tasks' : r.kind \in LoginTasks => r = s
                   /\ \A i \in DOMAIN uiq' : uiq'[i].kind \notin LoginClosures
<1>1. /\ \A r, t \in tasks : r.kind \in LoginTasks /\ t.kind \in LoginTasks => r = t
      /\ \A t \in tasks, i \in DOMAIN uiq :
           t.kind \in LoginTasks => uiq[i].kind \notin LoginClosures
      /\ \A i, j \in DOMAIN uiq :
           uiq[i].kind \in LoginClosures /\ uiq[j].kind \in LoginClosures => i = j
  BY DEF Calm, OneLogin, Kinds, Posted
<1>2. ASSUME NEW t \in tasks, t.kind \in LoginTasks, NEW r, Become(t, {r}), uiq' = uiq
      PROVE  Goal
  BY <1>1, <1>2 DEF Become
<1>3. ASSUME uiq # <<>>, Head(uiq).kind \in LoginClosures, uiq' = Tail(uiq),
             NEW r, tasks' = tasks \cup {r}
      PROVE  Goal
  <2>1. 1 \in DOMAIN uiq /\ uiq[1].kind \in LoginClosures
    BY <1>3, HeadFields
  <2>2. \A t \in tasks : t.kind \notin LoginTasks
    BY <1>1, <2>1
  <2>3. \A i \in DOMAIN uiq : i # 1 => uiq[i].kind \notin LoginClosures
    BY <1>1, <2>1
  <2>4. \A i \in DOMAIN uiq' : uiq'[i].kind \notin LoginClosures
    BY <1>3, <2>3, Taking
  <2>5. QED
    BY <1>3, <2>2, <2>4
<1>4. ASSUME NEW pw \in Passwords, Unlock(pw) PROVE Goal
  <2>1. tasks = {} /\ uiq' = <<>> /\ tasks' = {[kind |-> "open", pw |-> pw]}
    BY <1>4, Idle DEF Unlock, Start
  <2>2. QED
    BY <2>1
<1>5. ASSUME NEW pw \in Passwords, SubmitImport(pw) PROVE Goal
  <2>1. \/ tasks' = tasks \cup {[kind |-> "readKeys", pw |-> pw]}
        \/ /\ MayRestore /\ tasks' = tasks \cup {[kind |-> "unpack", pw |-> pw]}
           /\ behind' = (behind \/ busy \/ Kinds({"unpack", "restore"}) # {})
    BY <1>5, Zenon DEF SubmitImport, Start
  <2>2. /\ MayRestore /\ tasks' = tasks \cup {[kind |-> "unpack", pw |-> pw]}
        /\ behind' = (behind \/ busy \/ Kinds({"unpack", "restore"}) # {})
    <3>1. tasks' # tasks \cup {[kind |-> "readKeys", pw |-> pw]}
      BY DEF LoginTasks
    <3>2. QED
      BY <2>1, <3>1, Zenon
  <2>3. Kinds({"unpack", "restore"}) = {}
    BY <2>2, Zenon
  <2>4. uiq' = uiq
    BY <1>5 DEF SubmitImport
  <2>5. (\A t \in tasks : t.kind \notin LoginTasks)
        /\ \A i \in DOMAIN uiq : uiq[i].kind \notin LoginClosures
    BY <2>2, <2>3, NoVaultYet DEF MayRestore, Exists, Kinds
  <2>6. QED
    BY <2>2, <2>4, <2>5
<1>6. CASE RunLoggedIn
  BY <1>3, <1>6 DEF RunLoggedIn, Start, LoginClosures
<1>7. CASE RunRestored
  BY <1>3, <1>7 DEF RunRestored, Start, LoginClosures
<1>8. ASSUME NEW t \in tasks, CreateVault(t), mem' = Append(mem, Empty(t.pw)),
             s.kind = "seal"
      PROVE  Goal
  <2>1. \/ /\ MayCreate /\ uiq' = uiq
           /\ Become(t, {[kind |-> "seal", acc |-> t.acc, obj |-> Len(mem) + 1]})
        \/ End(t)
    BY <1>8 DEF CreateVault
  <2>2. /\ MayCreate /\ uiq' = uiq
        /\ Become(t, {[kind |-> "seal", acc |-> t.acc, obj |-> Len(mem) + 1]})
    BY <2>1 DEF End
  <2>3. t.kind = "create" /\ file = NoVault
    BY <1>8, <2>2 DEF CreateVault, Kinds, MayCreate, Exists
  <2>4. (\A r \in tasks : r.kind \notin LoginTasks)
        /\ \A i \in DOMAIN uiq : uiq[i].kind \notin LoginClosures
    BY <2>3, NoVaultYet DEF Calm, Creating, Kinds
  <2>5. QED
    BY <2>2, <2>4 DEF Become
<1>9. ASSUME NEW t \in tasks, BootStart(t) PROVE Goal
  BY <1>2, <1>9 DEF BootStart, Kinds, LoginTasks
<1>10. ASSUME NEW t \in tasks, UnpackArchive(t) PROVE Goal
  <2>1. t.kind \in LoginTasks
    BY <1>10 DEF UnpackArchive, Kinds, LoginTasks
  <2>2. End(t) \/ (uiq' = uiq /\ \E r : Become(t, {r}))
    BY <1>10 DEF UnpackArchive
  <2>3. QED
    BY <1>2, <2>1, <2>2 DEF End
<1>11. ASSUME NEW t \in tasks, RestoreFile(t) PROVE Goal
  <2>1. t.kind \in LoginTasks
    BY <1>11 DEF RestoreFile, Kinds, LoginTasks
  <2>2. End(t) \/ (uiq' = uiq /\ \E r : Become(t, {r}))
    BY <1>11 DEF RestoreFile
  <2>3. QED
    BY <1>2, <2>1, <2>2 DEF End
<1>12. QED
  BY <1>4, <1>5, <1>6, <1>7, <1>8, <1>9, <1>10, <1>11, TaskSources
     DEF Starts, LoginTasks, Write, AddOf

(* A login closure is posted by the last login task.                       *)
LEMMA LoginPosts ==
  ASSUME CalmStep, NEW t \in tasks, NEW c, Post(c), Posts(t, c), c.kind \in LoginClosures
  PROVE  /\ t.kind \in LoginTasks /\ \A r \in tasks' : r.kind \notin LoginTasks
         /\ \A i \in DOMAIN uiq' : uiq'[i].kind \in LoginClosures => i = Len(uiq) + 1
<1> USE DEF CalmStep
<1>1. \/ SealKey(t) \/ OpenVault(t) \/ BootPresent(t) \/ BootImport(t) \/ FinishRestore(t)
  BY DEF Posts, LoginClosures
<1>2. t.kind \in LoginTasks
  BY <1>1
     DEF SealKey, OpenVault, BootPresent, BootImport, FinishRestore, Kinds, LoginTasks
<1>3. \A s \in tasks' : s \in tasks \/ s.kind \notin LoginTasks
  <2>1. (BootPresent(t) \/ BootImport(t)) =>
          tasks' \subseteq (tasks \ {t}) \cup {s \in tasks' : s.kind = "sync"}
    BY DEF BootPresent, BootImport, BootReady, Become, End
  <2>2. (SealKey(t) \/ OpenVault(t) \/ FinishRestore(t)) => tasks' = tasks \ {t}
    BY DEF SealKey, OpenVault, FinishRestore, End
  <2>3. QED
    BY <1>1, <2>1, <2>2 DEF LoginTasks
<1>4. t \notin tasks'
  BY <1>1, <1>2
     DEF SealKey, OpenVault, BootPresent, BootImport, FinishRestore, BootReady, Become,
         End, Kinds
<1>5. \A r \in tasks' : r.kind \notin LoginTasks
  BY <1>2, <1>3, <1>4 DEF Calm, OneLogin, Kinds
<1>6. \A i \in DOMAIN uiq : uiq[i].kind \notin LoginClosures
  BY <1>2 DEF Calm, OneLogin, Kinds, Posted
<1>7. QED
  BY <1>2, <1>5, <1>6, Posting

(* A login, a boot or a restore stays one thing.                           *)
LEMMA OneLoginStep == CalmStep => OneLogin'
<1> SUFFICES ASSUME CalmStep PROVE OneLogin'
  OBVIOUS
<1> USE DEF CalmStep
<1>1. /\ \A r, t \in tasks : r.kind \in LoginTasks /\ t.kind \in LoginTasks => r = t
      /\ \A t \in tasks, i \in DOMAIN uiq :
           t.kind \in LoginTasks => uiq[i].kind \notin LoginClosures
      /\ \A i, j \in DOMAIN uiq :
           uiq[i].kind \in LoginClosures /\ uiq[j].kind \in LoginClosures => i = j
  BY DEF Calm, OneLogin, Kinds, Posted
<1>2. ASSUME NEW s \in tasks', s \notin tasks, s.kind \in LoginTasks PROVE OneLogin'
  BY <1>2, NewLogin DEF OneLogin, Kinds, Posted
<1>3. ASSUME \A s \in tasks' : s.kind \in LoginTasks => s \in tasks PROVE OneLogin'
  <2>1. ASSUME NEW t \in tasks, NEW c, Post(c), Posts(t, c) PROVE OneLogin'
    <3>1. CASE c.kind \in LoginClosures
      BY <2>1, <3>1, LoginPosts DEF OneLogin, Kinds, Posted
    <3>2. CASE c.kind \notin LoginClosures
      <4>1. \A i \in DOMAIN uiq' : uiq'[i].kind \in LoginClosures =>
              i \in DOMAIN uiq /\ uiq[i].kind \in LoginClosures
        BY <2>1, <3>2, Posting
      <4>2. QED
        BY <1>1, <1>3, <4>1 DEF OneLogin, Kinds, Posted
    <3>3. QED
      BY <3>1, <3>2
  <2>2. CASE uiq # <<>> /\ uiq' = Tail(uiq)
    <3>1. \A i \in DOMAIN uiq' : i + 1 \in DOMAIN uiq /\ uiq'[i] = uiq[i + 1] /\ i \in Nat
      BY <2>2, Taking
    <3>2. QED
      BY <1>1, <1>3, <3>1 DEF OneLogin, Kinds, Posted
  <2>3. CASE uiq' = uiq
    BY <1>1, <1>3, <2>3 DEF OneLogin, Kinds, Posted
  <2>4. QED
    BY <2>1, <2>2, <2>3, ClosureSources
<1>4. QED
  BY <1>2, <1>3

(* Only these change the screen, and what they find and leave.             *)
LEMMA ScreenSteps ==
  ASSUME CalmStep
  PROVE  \/ screen' = screen
         \/ Reset /\ tasks = {} /\ DOMAIN uiq = {} /\ tasks' = {} /\ uiq' = uiq
         \/ /\ RunLoggedIn /\ screen \in {"choose", "unlock"} /\ screen' = "booting"
            /\ \A t \in tasks : t.kind \notin LoginTasks
            /\ \A i \in DOMAIN uiq' : uiq'[i].kind \notin LoginClosures
         \/ /\ RunBootFailed \/ RunBooted
            /\ RunBooted => screen' = "ready"
            /\ screen = "booting"
            /\ \A t \in tasks : t.kind \notin LoginTasks
            /\ \A i \in DOMAIN uiq' : uiq'[i].kind \notin LoginClosures
<1> USE DEF CalmStep
<1>1. \/ screen' = screen \/ Reset \/ RunLoggedIn \/ RunBootFailed \/ RunBooted
  BY ShowWriters
     DEF OpenImport, DismissImport, Switch, AddLogin, RunAdded, RunRestored, RunMerge,
         RunImportDone, session
<1>2. CASE Reset
  <2>1. ~busy /\ screen = "unlock"
    <3>1. behind' = (behind \/ busy) /\ screen = "unlock"
      BY <1>2, Zenon DEF Reset
    <3>2. QED
      BY <3>1, Zenon
  <2>2. QED
    BY <1>2, <2>1, Idle DEF Reset
<1>3. ASSUME uiq # <<>>, uiq' = Tail(uiq), Head(uiq).kind \in LoginClosures
      PROVE  /\ \A t \in tasks : t.kind \notin LoginTasks
             /\ \A i \in DOMAIN uiq' : uiq'[i].kind \notin LoginClosures
             /\ 1 \in DOMAIN uiq /\ Head(uiq) = uiq[1]
  <2>1. 1 \in DOMAIN uiq /\ Head(uiq) = uiq[1] /\ uiq[1].kind \in LoginClosures
    BY <1>3, HeadFields
  <2>2. /\ \A t \in tasks : t.kind \notin LoginTasks
        /\ \A i \in DOMAIN uiq : i # 1 => uiq[i].kind \notin LoginClosures
    BY <2>1 DEF Calm, OneLogin, Kinds, Posted
  <2>3. QED
    BY <1>3, <2>1, <2>2, Taking
<1>4. CASE RunLoggedIn
  <2>1. uiq # <<>> /\ uiq' = Tail(uiq) /\ Head(uiq).kind = "loggedIn" /\ screen' = "booting"
    BY <1>4 DEF RunLoggedIn
  <2>2. screen \in {"choose", "unlock"}
    BY <2>1, HeadFields DEF Calm, Placed, Posted
  <2>3. QED
    BY <1>3, <1>4, <2>1, <2>2 DEF LoginClosures
<1>5. CASE RunBootFailed \/ RunBooted
  <2>1. /\ uiq # <<>> /\ uiq' = Tail(uiq) /\ Head(uiq).kind \in {"booted", "bootFailed"}
        /\ RunBooted => screen' = "ready"
    BY <1>5 DEF RunBootFailed, RunBooted
  <2>2. screen = "booting"
    BY <2>1, HeadFields DEF Calm, Placed, Posted
  <2>3. QED
    BY <1>3, <1>5, <2>1, <2>2 DEF LoginClosures
<1>6. QED
  BY <1>1, <1>2, <1>4, <1>5

(* The modal of a restore stays open.                                      *)
LEMMA ModalStays ==
  ASSUME CalmStep, NEW t \in tasks, t.kind \in {"unpack", "restore"}
  PROVE  modal' = modal
<1> USE DEF CalmStep
<1>1. /\ \/ modal' = modal \/ OpenImport \/ DismissImport \/ RunRestored
         \/ RunImportDone
  BY ShowWriters
     DEF Reset, Switch, AddLogin, RunLoggedIn, RunBootFailed, RunBooted, RunAdded, RunMerge,
         dialogs
<1>2. modal = "restore" /\ screen = "choose"
  BY DEF Calm, Placed, Kinds
<1>3. ~OpenImport
  BY <1>2 DEF OpenImport
<1>4. ~DismissImport
  <2>1. Kinds({"unpack", "restore"}) # {}
    BY DEF Kinds
  <2>2. DismissImport => behind'
    BY <2>1, Zenon DEF DismissImport
  <2>3. QED
    BY <2>2
<1>5. ~RunRestored
  BY HeadFields DEF RunRestored, Calm, OneLogin, Kinds, Posted, LoginTasks, LoginClosures
<1>6. ~RunImportDone
  BY <1>2, HeadFields DEF RunImportDone, Calm, Placed, Posted
<1>7. QED
  BY <1>1, <1>3, <1>4, <1>5, <1>6

(* Every thread and closure stays on its screen.                           *)
OnReady == {"write", "ensure", "makeSelf", "add", "check", "backup"}
(* Every step keeps tasks and closures on their screens.                   *)
LEMMA PlacedStep == CalmStep => Placed'
<1> SUFFICES ASSUME CalmStep PROVE Placed'
  OBVIOUS
<1> USE DEF CalmStep, OnReady
<1>1. \A t \in tasks :
        /\ t.kind \in {"unpack", "restore"} => screen = "choose" /\ modal = "restore"
        /\ t.kind = "seal" => screen = "choose"
        /\ t.kind = "open" => screen \in {"choose", "unlock"}
        /\ t.kind \in {"boot", "import"} => screen = "booting"
        /\ t.kind \in OnReady => screen = "ready"
        /\ t.kind \in {"sync", "heal"} => screen = "ready" \/ Posted({"booted"})
  BY DEF Calm, Placed, Kinds
<1>2. \A i \in DOMAIN uiq :
        /\ uiq[i].kind = "restored" => screen = "choose"
        /\ uiq[i].kind = "loggedIn" => screen \in {"choose", "unlock"}
        /\ uiq[i].kind \in {"booted", "bootFailed"} => screen = "booting"
        /\ uiq[i].kind \in {"added", "importDone", "backedUp"} => screen = "ready"
  BY DEF Calm, Placed, Posted
<1>3. ASSUME NEW t \in tasks'
      PROVE  /\ t.kind \in {"unpack", "restore"} => screen' = "choose" /\ modal' = "restore"
             /\ t.kind = "seal" => screen' = "choose"
             /\ t.kind = "open" => screen' \in {"choose", "unlock"}
             /\ t.kind \in {"boot", "import"} => screen' = "booting"
             /\ t.kind \in OnReady => screen' = "ready"
  <2>1. CASE t \in tasks
    <3>1. t.kind \in LoginTasks => t.kind \in {"unpack", "restore", "seal", "open", "boot", "import"}
      BY DEF LoginTasks
    <3>2. t.kind \in {"unpack", "restore", "seal", "open", "boot", "import"} => t.kind \in LoginTasks
      BY DEF LoginTasks
    <3>3. t.kind \in {"unpack", "restore"} => modal' = "restore"
      BY <1>1, <2>1, ModalStays
    <3>4. QED
      BY <1>1, <2>1, <3>1, <3>2, <3>3, ScreenSteps
  <2>2. CASE t \notin tasks
    <3> DEFINE Goal ==
          /\ t.kind \in {"unpack", "restore"} => screen' = "choose" /\ modal' = "restore"
          /\ t.kind = "seal" => screen' = "choose"
          /\ t.kind = "open" => screen' \in {"choose", "unlock"}
          /\ t.kind \in {"boot", "import"} => screen' = "booting"
          /\ t.kind \in OnReady => screen' = "ready"
    <3>1. Starts(t)
      BY <2>2, TaskSources
    <3>2. ASSUME NEW a \in Accounts, NEW pw \in Passwords, LoginWithNsec(a, pw),
                 t = [kind |-> "create", acc |-> a, pw |-> pw]
          PROVE  Goal
      BY <3>2
    <3>3. ASSUME NEW pw \in Passwords, Unlock(pw), t.kind = "open" PROVE Goal
      BY <3>3 DEF Unlock, session
    <3>4. ASSUME NEW pw \in Passwords, CreateBackup(pw), t.kind = "check" PROVE Goal
      BY <3>4 DEF CreateBackup, session
    <3>5. ASSUME NEW pw \in Passwords, SubmitImport(pw), t.kind \in {"readKeys", "unpack"}
          PROVE  Goal
      <4>1. CASE t.kind = "readKeys"
        BY <4>1
      <4>2. CASE t.kind = "unpack"
        <5>1. \/ tasks' = tasks \cup {[kind |-> "readKeys", pw |-> pw]}
              \/ MayRestore
          BY <3>5, Zenon DEF SubmitImport, Start
        <5>2. MayRestore
          BY <2>2, <4>2, <5>1
        <5>3. UNCHANGED <<screen, modal>>
          BY <3>5 DEF SubmitImport, session
        <5>4. screen = "choose" /\ modal = "restore"
          BY <5>2, NoVaultYet DEF MayRestore, Exists
        <5>5. QED
          BY <4>2, <5>3, <5>4
      <4>3. QED
        BY <3>5, <4>1, <4>2
    <3>6. ASSUME NEW a \in Accounts, Switch(a) \/ AddAccount(a), t.kind \in OnReady
          PROVE  Goal
      BY <3>6 DEF Switch, AddAccount, session
    <3>7. CASE RunLoggedIn /\ t.kind = "boot"
      BY <3>7 DEF RunLoggedIn
    <3>8. CASE RunBooted /\ t.kind = "write"
      BY <3>8 DEF RunBooted
    <3>9. CASE RunAdded /\ t.kind \in OnReady
      BY <1>2, <3>9, HeadFields DEF RunAdded
    <3>10. CASE RunRestored /\ t.kind = "open"
      BY <1>2, <3>10, HeadFields DEF RunRestored, session
    <3>11. CASE RunMerge /\ t.kind = "add"
      <4>1. screen = "ready" /\ screen' = screen
        BY <2>2, <3>11 DEF RunMerge
      <4>2. QED
        BY <3>11, <4>1
    <3>12. ASSUME NEW r \in tasks, CreateVault(r), t.kind = "seal" PROVE Goal
      <4>1. MayCreate /\ screen' = screen
        <5>1. MayCreate \/ End(r)
          BY <3>12 DEF CreateVault
        <5>2. QED
          BY <2>2, <3>12, <5>1 DEF End, CreateVault, session
      <4>2. QED
        BY <3>12, <4>1, NoVaultYet DEF MayCreate, Exists
    <3>13. ASSUME NEW r \in tasks, BootPresent(r) \/ BootImport(r) \/ SyncStart(r),
                  t.kind \in {"sync", "heal"}
           PROVE  Goal
      BY <3>13
    <3>18. ASSUME NEW r \in tasks, BootStart(r), t.kind = "import" PROVE Goal
      BY <1>1, <3>18 DEF BootStart, Kinds, session
    <3>15. ASSUME NEW r \in tasks,
                  FindSelf(r) \/ AddLogin(r) \/ CheckPassword(r)
                  \/ ReadFile(r, "vault") \/ ReadFile(r, "home"),
                  t.kind \in OnReady
           PROVE  Goal
      <4>1. r.kind \in OnReady /\ screen' = screen
        BY <3>15 DEF FindSelf, AddLogin, CheckPassword, ReadFile, Kinds, session
      <4>2. QED
        BY <1>1, <3>15, <4>1
    <3>16. ASSUME NEW r \in tasks, UnpackArchive(r) \/ RestoreFile(r), t.kind = "restore"
           PROVE  Goal
      <4>1. r.kind \in {"unpack", "restore"} /\ screen' = screen /\ modal' = modal
        BY <3>16 DEF UnpackArchive, RestoreFile, Kinds, session, dialogs
      <4>2. QED
        BY <1>1, <3>16, <4>1
    <3>17. QED
      BY <3>1, <3>2, <3>3, <3>4, <3>5, <3>6, <3>7, <3>8, <3>9, <3>10, <3>11, <3>12, <3>13,
         <3>18, <3>15, <3>16 DEF Starts, Write, AddOf
  <2>3. QED
    BY <2>1, <2>2
<1>4. ASSUME NEW i \in DOMAIN uiq'
      PROVE  /\ uiq'[i].kind = "restored" => screen' = "choose"
             /\ uiq'[i].kind = "loggedIn" => screen' \in {"choose", "unlock"}
             /\ uiq'[i].kind \in {"booted", "bootFailed"} => screen' = "booting"
             /\ uiq'[i].kind \in {"added", "importDone", "backedUp"} => screen' = "ready"
  <2> DEFINE Goal(c) == /\ c.kind = "restored" => screen' = "choose"
                        /\ c.kind = "loggedIn" => screen' \in {"choose", "unlock"}
                        /\ c.kind \in {"booted", "bootFailed"} => screen' = "booting"
                        /\ c.kind \in {"added", "importDone", "backedUp"} =>
                             screen' = "ready"
  <2>1. CASE screen' = screen
    <3>1. ASSUME NEW t \in tasks, NEW c, Post(c), Posts(t, c) PROVE Goal(c)
      <4>1. /\ SealKey(t) => t.kind = "seal"
            /\ OpenVault(t) => t.kind = "open"
            /\ BootPresent(t) \/ BootImport(t) => t.kind \in {"boot", "import"}
            /\ AddLogin(t) => t.kind = "add"
            /\ CheckPassword(t) \/ FinishBackup(t) => t.kind \in {"check", "backup"}
            /\ FinishRestore(t) => t.kind = "restore"
        BY DEF SealKey, OpenVault, BootPresent, BootImport, AddLogin, CheckPassword,
               FinishBackup, FinishRestore, Kinds
      <4>2. QED
        BY <1>1, <2>1, <3>1, <4>1 DEF Posts
    <3>2. ASSUME NEW t \in tasks, NEW c, Post(c), Posts(t, c) PROVE Goal(uiq'[i])
      BY <1>2, <2>1, <3>1, <3>2, Posting
    <3>3. CASE uiq # <<>> /\ uiq' = Tail(uiq)
      BY <1>2, <2>1, <3>3, Taking
    <3>4. CASE uiq' = uiq
      BY <1>2, <2>1, <3>4
    <3>5. QED
      BY <3>2, <3>3, <3>4, ClosureSources
  <2>2. CASE screen' # screen
    <3>1. \/ Reset /\ DOMAIN uiq = {} /\ uiq' = uiq
          \/ /\ screen \in {"choose", "unlock", "booting"}
             /\ uiq'[i].kind \notin LoginClosures
             /\ RunLoggedIn \/ RunBootFailed \/ RunBooted
      BY <2>2, ScreenSteps
    <3>2. CASE /\ screen \in {"choose", "unlock", "booting"}
               /\ uiq'[i].kind \notin LoginClosures
               /\ RunLoggedIn \/ RunBootFailed \/ RunBooted
      <4>1. uiq # <<>> /\ uiq' = Tail(uiq)
        BY <3>2 DEF RunLoggedIn, RunBootFailed, RunBooted
      <4>2. i + 1 \in DOMAIN uiq /\ uiq'[i] = uiq[i + 1]
        BY <4>1, Taking
      <4>3. QED
        BY <1>2, <3>2, <4>2 DEF LoginClosures
    <3>3. QED
      BY <3>1, <3>2
  <2>3. QED
    BY <2>1, <2>2
<1>5. ASSUME NEW t \in tasks', t.kind \in {"sync", "heal"}
      PROVE  screen' = "ready" \/ Posted({"booted"})'
  <2>1. CASE \E r \in tasks : r.kind \in {"sync", "heal"}
    <3>1. screen = "ready" \/ Posted({"booted"})
      BY <1>1, <2>1
    <3>2. CASE screen = "ready"
      BY <3>2, ScreenSteps DEF Reset
    <3>3. CASE Posted({"booted"})
      <4>1. \/ Posted({"booted"})'
            \/ RunClosure /\ uiq # <<>> /\ Head(uiq).kind = "booted"
        BY <3>3, PostedStays, ClosureRuns
      <4>2. CASE RunClosure /\ uiq # <<>> /\ Head(uiq).kind = "booted"
        <5>1. RunBooted
          BY <4>2
             DEF RunClosure, RunLoginFailed, RunLoggedIn, RunBootFailed, RunAdded,
                 RunBackedUp, RunRestored, RunMerge, RunImportEnded, RunImportDone
        <5>2. QED
          BY <5>1 DEF RunBooted
      <4>3. QED
        BY <4>1, <4>2
    <3>4. QED
      BY <3>1, <3>2, <3>3
  <2>2. CASE \A r \in tasks : r.kind \notin {"sync", "heal"}
    <3>1. Starts(t)
      BY <1>5, <2>2, TaskSources
    <3>2. \E r \in tasks : BootPresent(r) \/ BootImport(r) \/ SyncStart(r)
      BY <1>5, <3>1 DEF Starts, Write, AddOf
    <3>3. PICK r \in tasks : BootPresent(r) \/ BootImport(r)
      BY <2>2, <3>2 DEF SyncStart, Kinds
    <3>4. BootReady(r, TRUE) \/ BootReady(r, FALSE) \/ End(r)
      BY <3>3 DEF BootPresent, BootImport
    <3>5. ~End(r)
      BY <1>5, <2>2 DEF End
    <3>6. \E c : Post(c) /\ c.kind = "booted"
      BY <3>4, <3>5 DEF BootReady
    <3>7. QED
      BY <3>6, PostedNow
  <2>3. QED
    BY <2>1, <2>2
<1>6. QED
  BY <1>3, <1>4, <1>5 DEF Placed, Kinds, Posted
-----------------------------------------------------------------------------
(* Who writes the vault, and what it is then.                              *)

(* The session's writes go through the object of the session.              *)
Inner ==
  \E t \in tasks :
    \/ (BootStart(t) \/ SyncStart(t)) /\ Wipe(cell)
    \/ (BootImport(t) \/ SyncHeal(t) \/ AddLogin(t)) /\ Register(t.acc, cell)
    \/ WriteVault(t) /\ t.obj = cell

(* The vault is there when a session runs: a login screen has seen it.     *)
LEMMA InsideFacts ==
  ASSUME CalmStep, screen \in Inside
  PROVE  /\ cell \in DOMAIN mem /\ mem[cell] \in Vault /\ file \in Vault
         /\ file.nsec # None /\ mem[cell].nsec = file.nsec /\ mem[cell].pw = file.pw
         /\ file.backups \subseteq mem[cell].backups
         /\ home \ orphans \subseteq mem[cell].secrets
         /\ raced \/ mem[cell] = file
         /\ file # NoVault /\ home \ orphans \subseteq file.secrets
<1>1. cell \in DOMAIN mem
  BY DEF CalmStep, TypeOK, Works, Refers
<1>2. mem[cell] \in Vault /\ file \in Vault
  BY <1>1 DEF CalmStep, TypeOK, Works, Stored
<1>3. /\ file.nsec # None /\ mem[cell].nsec = file.nsec /\ mem[cell].pw = file.pw
      /\ file.backups \subseteq mem[cell].backups
      /\ home \ orphans \subseteq mem[cell].secrets
      /\ raced \/ mem[cell] = file
  BY DEF CalmStep, Calm, Object
<1>4. file # NoVault
  BY <1>3 DEF NoVault, Empty
<1>5. home \ orphans \subseteq file.secrets
  BY Zenon DEF CalmStep, Calm, AccountsHaveSecrets
<1>6. QED
  BY <1>1, <1>2, <1>3, <1>4, <1>5

(* Each of the others is on a login screen.                                *)
LEMMA FileSteps ==
  ASSUME CalmStep
  PROVE  \/ /\ UNCHANGED <<file, home, orphans>>
            /\ mem' = mem \/ (file # NoVault /\ mem' = Append(mem, file))
         \/ /\ Reset /\ tasks = {} /\ DOMAIN uiq = {} /\ tasks' = {} /\ uiq' = uiq
         \/ \E t \in tasks :
              /\ t.kind = "create" /\ file = NoVault /\ file' = Empty(t.pw)
              /\ mem' = Append(mem, Empty(t.pw)) /\ UNCHANGED <<home, orphans, uiq>>
              /\ Become(t, {[kind |-> "seal", acc |-> t.acc, obj |-> Len(mem) + 1]})
         \/ \E t \in tasks : SealKey(t)
         \/ Inner
         \/ \E t \in tasks : RestoreFile(t)
         \/ \E t \in tasks : FinishRestore(t)
<1> USE DEF CalmStep
<1>1. \A t \in Kinds({"boot", "import", "sync", "heal", "write"}) : t.obj = cell
  BY DEF Calm, Object
<1>2. ASSUME NEW t \in tasks, BootStart(t) \/ SyncStart(t)
      PROVE  Inner \/ UNCHANGED <<file, home, orphans, mem>>
  <2>1. t.obj = cell
    BY <1>1, <1>2 DEF BootStart, SyncStart, Kinds
  <2>2. Wipe(cell) \/ UNCHANGED <<file, home, orphans, mem>>
    BY <1>2, <2>1 DEF BootStart, SyncStart
  <2>3. QED
    BY <1>2, <2>2 DEF Inner
<1>3. ASSUME NEW t \in tasks, BootImport(t) \/ SyncHeal(t) \/ AddLogin(t)
      PROVE  Inner \/ UNCHANGED <<file, home, orphans, mem>>
  <2>1. (BootImport(t) \/ SyncHeal(t)) => t.obj = cell
    BY <1>1, <1>3 DEF BootImport, SyncHeal, Kinds
  <2>2. Register(t.acc, cell) \/ UNCHANGED <<file, home, orphans, mem>>
    BY <1>3, <2>1 DEF BootImport, SyncHeal, AddLogin, Reimported
  <2>3. QED
    BY <1>3, <2>2 DEF Inner
<1>4. ASSUME NEW t \in tasks, WriteVault(t) PROVE Inner
  BY <1>1, <1>4 DEF WriteVault, Inner, Kinds
<1>5. ASSUME NEW t \in tasks, CreateVault(t)
      PROVE  \/ /\ t.kind = "create" /\ file = NoVault /\ file' = Empty(t.pw)
                /\ mem' = Append(mem, Empty(t.pw)) /\ UNCHANGED <<home, orphans, uiq>>
                /\ Become(t, {[kind |-> "seal", acc |-> t.acc, obj |-> Len(mem) + 1]})
             \/ UNCHANGED <<file, home, orphans, mem>>
  BY <1>5 DEF CreateVault, MayCreate, Exists, Kinds, history
<1>6. ASSUME NEW t \in tasks, BootPresent(t) \/ MakeSelf(t) \/ FinishBackup(t)
      PROVE  UNCHANGED <<file, home, orphans, mem>>
  BY <1>6 DEF BootPresent, MakeSelf, FinishBackup, history
<1>7. CASE Reset
  BY <1>7, ScreenSteps DEF Reset
<1>8. CASE UNCHANGED <<file, home, selfChats, archive, bare, orphans>>
  <2>1. ASSUME NEW t \in tasks, OpenVault(t)
        PROVE  mem' = mem \/ (file # NoVault /\ mem' = Append(mem, file))
    BY <2>1 DEF OpenVault, Opens
  <2>2. RunLoggedIn => mem' = mem
    BY DEF RunLoggedIn
  <2>3. QED
    BY <1>2, <1>3, <1>4, <1>5, <1>8, <2>1, <2>2, ObjectWriters
<1>9. CASE Reset \/ (\E t \in tasks : RestoreFile(t) \/ FinishRestore(t) \/ SealKey(t))
  BY <1>7, <1>9
<1>10. CASE \E t \in tasks :
              \/ CreateVault(t) \/ BootPresent(t) \/ BootStart(t) \/ BootImport(t)
              \/ SyncStart(t) \/ SyncHeal(t) \/ WriteVault(t) \/ MakeSelf(t)
              \/ AddLogin(t) \/ FinishBackup(t)
  BY <1>2, <1>3, <1>4, <1>5, <1>6, <1>10
<1>11. QED
  BY <1>8, <1>9, <1>10, DiskWriters

(* What a write of the session leaves: the file keeps its key, password    *)
(* and backups and has the secrets it must have.                           *)
LEMMA InnerFacts ==
  ASSUME CalmStep, Inner
  PROVE  /\ screen \in Inside /\ screen' = screen /\ cell' = cell
         /\ mem'[cell].nsec = file.nsec /\ mem'[cell].pw = file.pw
         /\ file'.nsec = file.nsec /\ file'.pw = file.pw /\ file' # NoVault
         /\ file.backups \subseteq file'.backups
         /\ file'.backups \subseteq mem'[cell].backups
         /\ home' \ orphans' \subseteq mem'[cell].secrets
         /\ home' \ orphans' \subseteq file'.secrets
         /\ raced' \/ (~raced /\ mem'[cell] = file')
         /\ (\A t \in tasks : ~WriteVault(t)) /\ ~raced => file'.active = file.active
<1> USE DEF CalmStep
<1>1. PICK t \in tasks :
    \/ (BootStart(t) \/ SyncStart(t)) /\ Wipe(cell)
    \/ (BootImport(t) \/ SyncHeal(t) \/ AddLogin(t)) /\ Register(t.acc, cell)
    \/ WriteVault(t) /\ t.obj = cell
  BY DEF Inner
<1>2. screen' = screen /\ cell' = cell
  BY <1>1 DEF BootStart, SyncStart, BootImport, SyncHeal, AddLogin, WriteVault, session
<1>3. screen \in Inside
  <2>1. t.kind \in {"boot", "import", "sync", "heal", "add", "write"}
    BY <1>1 DEF BootStart, SyncStart, BootImport, SyncHeal, AddLogin, WriteVault, Kinds
  <2>2. QED
    BY <2>1 DEF Calm, Placed, Kinds, Posted, Inside
<1>4. /\ cell \in DOMAIN mem /\ mem[cell] \in Vault /\ file \in Vault
      /\ file.nsec # None /\ mem[cell].nsec = file.nsec /\ mem[cell].pw = file.pw
      /\ file.backups \subseteq mem[cell].backups
      /\ home \ orphans \subseteq mem[cell].secrets
      /\ raced \/ mem[cell] = file
      /\ home \ orphans \subseteq file.secrets
  BY <1>3, InsideFacts
<1> DEFINE Goal ==
         /\ mem'[cell].nsec = file.nsec /\ mem'[cell].pw = file.pw
         /\ file'.nsec = file.nsec /\ file'.pw = file.pw
         /\ file.backups \subseteq file'.backups
         /\ file'.backups \subseteq mem'[cell].backups
         /\ home' \ orphans' \subseteq mem'[cell].secrets
         /\ home' \ orphans' \subseteq file'.secrets
<1>5. CASE (BootStart(t) \/ SyncStart(t)) /\ Wipe(cell)
  <2>1. /\ file' = mem'[cell] /\ home' = {}
        /\ file' = Record(mem[cell].pw, mem[cell].nsec, mem[cell].active,
                          mem[cell].backups, {})
    BY <1>4, <1>5, WipeTypes
  <2>2. Goal /\ mem'[cell] = file' /\ file'.active = mem[cell].active
    BY <1>4, <2>1 DEF Record
  <2>3. raced' = raced
    BY <1>5 DEF BootStart, SyncStart
  <2>4. QED
    BY <1>2, <1>3, <1>4, <2>2, <2>3 DEF NoVault, Empty
<1>6. CASE (BootImport(t) \/ SyncHeal(t) \/ AddLogin(t)) /\ Register(t.acc, cell)
  <2>1. t.acc \in Accounts
    BY <1>6, TaskFields DEF BootImport, SyncHeal, AddLogin, Kinds
  <2>2. /\ file' = mem'[cell] /\ home' = home \cup {t.acc} /\ orphans' = orphans \ {t.acc}
        /\ file' = Record(mem[cell].pw, mem[cell].nsec, mem[cell].active,
                          mem[cell].backups, mem[cell].secrets \cup {t.acc})
    BY <1>4, <1>6, <2>1, RegisterTypes
  <2>3. Goal /\ mem'[cell] = file' /\ file'.active = mem[cell].active
    BY <1>4, <2>2 DEF Record
  <2>4. raced' = raced
    BY <1>6 DEF BootImport, SyncHeal, AddLogin
  <2>5. QED
    BY <1>2, <1>3, <1>4, <2>3, <2>4 DEF NoVault, Empty
<1>7. CASE WriteVault(t) /\ t.obj = cell
  <2>1. t.acc \in Accounts /\ t.key \in {"backup", "active"}
    BY <1>7, TaskFields DEF WriteVault, Kinds
  <2>2. Persist(cell, With(mem[cell], t.key, t.acc)) /\ UNCHANGED <<home, orphans>>
    BY <1>7 DEF WriteVault
  <2>3. /\ mem'[cell] = With(mem[cell], t.key, t.acc) /\ file' \in {file, mem'[cell]}
    BY <1>4, <2>1, <2>2, PersistTypes, VaultOps
  <2>4. \/ mem'[cell] = Record(mem[cell].pw, mem[cell].nsec, t.acc, mem[cell].backups,
                              mem[cell].secrets)
        \/ mem'[cell] = Record(mem[cell].pw, mem[cell].nsec, mem[cell].active,
                              mem[cell].backups \cup {t.acc}, mem[cell].secrets)
    BY <1>4, <2>1, <2>3, VaultFields
  <2>5. Goal
    BY <1>4, <2>2, <2>3, <2>4 DEF Record
  <2>6. raced' \/ (~raced /\ mem'[cell] = file')
    <3>1. raced' = (raced \/ file' # mem'[cell])
      BY <1>7, Zenon DEF WriteVault
    <3>2. QED
      BY <3>1, Zenon
  <2>7. file' # NoVault
    BY <1>4, <2>5 DEF NoVault, Empty
  <2>8. QED
    BY <1>2, <1>3, <1>7, <2>5, <2>6, <2>7
<1>8. QED
  BY <1>1, <1>5, <1>6, <1>7

(* Sealing the key of a vault that has just been created.                  *)
LEMMA SealFacts ==
  ASSUME CalmStep, NEW t \in tasks, SealKey(t)
  PROVE  /\ t.acc \in Accounts /\ t.obj \in DOMAIN mem /\ mem[t.obj] = file
         /\ file \in Vault /\ file # NoVault /\ file.nsec = None /\ file.active = None
         /\ mem'[t.obj] = Record(file.pw, t.acc, file.active, file.backups, file.secrets)
         /\ file' \in {file, mem'[t.obj]} /\ file' # NoVault
         /\ file'.active = None /\ file'.backups = file.backups
         /\ file'.secrets = file.secrets
         /\ UNCHANGED <<home, orphans, screen, cell>>
         /\ screen = "choose" /\ (cut' \/ file'.nsec = t.acc)
<1> USE DEF CalmStep
<1>1. t.acc \in Accounts /\ t.obj \in DOMAIN mem
  BY TaskFields DEF SealKey, Kinds
<1>2. mem[t.obj] = file /\ file # NoVault /\ file.nsec = None /\ file.active = None
  BY DEF SealKey, Calm, Login
<1>3. file \in Vault
  BY DEF TypeOK, Stored
<1>4. Persist(t.obj, With(file, "nsec", t.acc))
  BY <1>2 DEF SealKey
<1>5. mem'[t.obj] = With(file, "nsec", t.acc) /\ file' \in {file, mem'[t.obj]}
  BY <1>1, <1>2, <1>3, <1>4, PersistTypes, VaultOps
<1>6. mem'[t.obj] = Record(file.pw, t.acc, file.active, file.backups, file.secrets)
  BY <1>1, <1>3, <1>5, VaultFields
<1>7. mem'[t.obj] # NoVault
  BY <1>1, <1>6 DEF Record, NoVault, Empty
<1>8. UNCHANGED <<home, orphans, screen, cell>>
  BY DEF SealKey, session
<1>9. cut' \/ file'.nsec = t.acc
  <2>1. cut' = (cut \/ file'.nsec # t.acc)
    BY Zenon DEF SealKey
  <2>2. QED
    BY <2>1, Zenon
<1>10. screen = "choose"
  BY DEF SealKey, Calm, Placed
<1>11. /\ mem'[t.obj].active = file.active /\ mem'[t.obj].backups = file.backups
       /\ mem'[t.obj].secrets = file.secrets
  BY <1>6 DEF Record
<1>12. QED
  BY <1>1, <1>2, <1>3, <1>5, <1>6, <1>7, <1>8, <1>9, <1>10, <1>11

(* A restore writes the vault where there is none.                         *)
LEMMA RestoreFacts ==
  ASSUME CalmStep, NEW t \in tasks, RestoreFile(t)
  PROVE  /\ screen = "choose" /\ screen' = screen /\ mem' = mem /\ cell' = cell
         /\ archive' = archive /\ bare' = bare
         /\ \/ UNCHANGED <<file, home, orphans>> /\ End(t) /\ Post([kind |-> "importEnded"])
            \/ /\ t.todo \in {<<"vault", "home">>, <<"vault">>}
               /\ file = NoVault /\ file' = archive.vault /\ archive # NoArchive
               /\ file'.nsec # None /\ file' # NoVault /\ UNCHANGED <<home, orphans, uiq>>
               /\ Become(t, {[kind |-> "restore", pw |-> t.pw, todo |-> Tail(t.todo)]})
            \/ /\ t.todo \in {<<"home", "vault">>, <<"home">>}
               /\ home' = archive.home /\ orphans' = orphans \cup archive.home
               /\ UNCHANGED <<file, uiq>>
               /\ Become(t, {[kind |-> "restore", pw |-> t.pw, todo |-> Tail(t.todo)]})
<1> USE DEF CalmStep
<1>1. t.kind = "restore" /\ t.todo # <<>>
  BY DEF RestoreFile, Kinds
<1>2. /\ t.todo \in {<<"vault", "home">>, <<"home", "vault">>, <<"home">>, <<"vault">>, <<>>}
      /\ t = [kind |-> "restore", pw |-> t.pw, todo |-> t.todo]
  BY <1>1, TaskFields
<1>3. \A d : [t EXCEPT !.todo = d] = [kind |-> "restore", pw |-> t.pw, todo |-> d]
  <2>1. PICK pw, todo : t = [kind |-> "restore", pw |-> pw, todo |-> todo]
    BY <1>2
  <2>2. t.pw = pw
    BY <2>1
  <2>3. \A d : [[kind |-> "restore", pw |-> pw, todo |-> todo] EXCEPT !.todo = d]
               = [kind |-> "restore", pw |-> pw, todo |-> d]
    OBVIOUS
  <2>4. QED
    BY <2>1, <2>2, <2>3
<1>4. archive # NoArchive
      /\ file = IF t.todo \in {<<"home">>, <<>>} THEN archive.vault ELSE NoVault
  BY <1>1 DEF Calm, Restores, Kinds
<1>5. archive.vault.nsec # None /\ archive.vault # NoVault
  BY <1>4 DEF Calm, Archived, Opens
<1>6. screen = "choose"
  BY <1>1 DEF Calm, Placed, Kinds
<1>7. screen' = screen /\ mem' = mem /\ cell' = cell /\ archive' = archive /\ bare' = bare
  BY DEF RestoreFile, session, saved
<1>8. \/ UNCHANGED <<file, home, orphans>> /\ End(t) /\ Post([kind |-> "importEnded"])
      \/ /\ Head(t.todo) = "vault" /\ file' = archive.vault /\ UNCHANGED <<home, orphans, uiq>>
         /\ Become(t, {[kind |-> "restore", pw |-> t.pw, todo |-> Tail(t.todo)]})
      \/ /\ Head(t.todo) # "vault"
         /\ home' = archive.home /\ orphans' = orphans \cup archive.home
         /\ UNCHANGED <<file, uiq>>
         /\ Become(t, {[kind |-> "restore", pw |-> t.pw, todo |-> Tail(t.todo)]})
  BY <1>3 DEF RestoreFile, Ended
<1>9. CASE t.todo \in {<<"vault", "home">>, <<"vault">>}
  <2>1. Head(t.todo) = "vault" /\ t.todo \notin {<<"home">>, <<>>}
    BY <1>9
  <2>2. QED
    BY <1>4, <1>5, <1>6, <1>7, <1>8, <1>9, <2>1
<1>10. CASE t.todo \in {<<"home", "vault">>, <<"home">>}
  <2>1. Head(t.todo) # "vault"
    BY <1>10
  <2>2. QED
    BY <1>6, <1>7, <1>8, <1>10, <2>1
<1>11. QED
  BY <1>1, <1>2, <1>9, <1>10

(* The home and the vault stay together.                                   *)
LEMMA SecretsStep ==
  CalmStep => home' \ orphans' \subseteq file'.secrets
<1> SUFFICES ASSUME CalmStep PROVE home' \ orphans' \subseteq file'.secrets
  OBVIOUS
<1> USE DEF CalmStep
<1>1. home \ orphans \subseteq file.secrets
  BY Zenon DEF Calm, AccountsHaveSecrets
<1>2. file = NoVault => home \ orphans = {}
  BY <1>1 DEF NoVault, Empty
<1>3. CASE Reset
  BY <1>3 DEF Reset
<1>4. ASSUME NEW t \in tasks, SealKey(t) PROVE home' \ orphans' \subseteq file'.secrets
  BY <1>1, <1>4, SealFacts
<1>5. CASE Inner
  BY <1>5, InnerFacts
<1>6. ASSUME NEW t \in tasks, RestoreFile(t) PROVE home' \ orphans' \subseteq file'.secrets
  BY <1>1, <1>2, <1>6, RestoreFacts
<1>7. ASSUME NEW t \in tasks, FinishRestore(t)
      PROVE  home' \ orphans' \subseteq file'.secrets
  BY <1>1, <1>7 DEF FinishRestore, disk
<1>8. QED
  BY <1>1, <1>2, <1>3, <1>4, <1>5, <1>6, <1>7, FileSteps

(* A sealed key stays in the file until the vault is reset.                *)
LEMMA KeysStep ==
  ASSUME CalmStep, ~Reset
  PROVE  /\ Keys \subseteq Keys' /\ file.nsec \in {None, file'.nsec}
         /\ file # NoVault => file' # NoVault
<1> USE DEF CalmStep
<1>1. file = NoVault => Keys = {} /\ file.nsec = None
  BY DEF NoVault, Empty, Keys
<1>2. ASSUME NEW t \in tasks, SealKey(t)
      PROVE  Keys \subseteq Keys' /\ file.nsec \in {None, file'.nsec} /\ file' # NoVault
  BY <1>2, SealFacts DEF Keys
<1>3. CASE Inner
  BY <1>3, InnerFacts DEF Keys
<1>4. ASSUME NEW t \in tasks, RestoreFile(t)
      PROVE  /\ Keys \subseteq Keys' /\ file.nsec \in {None, file'.nsec}
             /\ file # NoVault => file' # NoVault
  BY <1>1, <1>4, RestoreFacts DEF Keys
<1>5. ASSUME NEW t \in tasks, FinishRestore(t) PROVE file' = file
  BY <1>5 DEF FinishRestore, disk
<1>6. file' = file => Keys' = Keys
  BY DEF Keys
<1>7. QED
  BY <1>1, <1>2, <1>3, <1>4, <1>5, <1>6, FileSteps

(* A vault without its key is being created, or was cut short.             *)
LEMMA VaultHasKeyStep == CalmStep => VaultHasKey'
<1> SUFFICES ASSUME CalmStep, Exists', file'.nsec = None, ~cut'
             PROVE  Kinds({"seal"})' # {}
  BY DEF VaultHasKey
<1> USE DEF CalmStep
<1>1. cut => cut'
  BY Zenon DEF Next, User, Worker, RunClosure, LoginWithNsec, Unlock, CreateBackup,
     SubmitImport, Switch, AddAccount, Reset, OpenImport, DismissImport, CreateVault,
     SealKey, OpenVault, BootPresent, BootStart, BootImport, SyncStart, SyncHeal,
     WriteVault, FindSelf, MakeSelf, AddLogin, CheckPassword, ReadFile, FinishBackup,
     UnpackArchive, RestoreFile, FinishRestore, ReadKeys, RunLoginFailed, RunLoggedIn,
     RunBootFailed, RunBooted, RunAdded, RunBackedUp, RunRestored, RunMerge,
     RunImportEnded, RunImportDone, history
<1>2. CASE file' = file
  <2>1. PICK t \in tasks : t.kind = "seal"
    BY <1>1, <1>2 DEF Exists, Calm, VaultHasKey, Kinds
  <2>2. CASE t \in tasks'
    BY <2>1, <2>2 DEF Kinds
  <2>3. CASE t \notin tasks'
    <3>1. SealKey(t)
      BY <2>1, <2>3, TaskEnds
         DEF Runs, Kinds, CreateVault, OpenVault, BootPresent, BootStart, BootImport,
             SyncStart, SyncHeal, WriteVault, FindSelf, MakeSelf, AddLogin, CheckPassword,
             ReadFile, FinishBackup, UnpackArchive, RestoreFile, FinishRestore, ReadKeys
    <3>2. QED
      BY <1>2, <3>1, SealFacts
  <2>4. QED
    BY <2>2, <2>3
<1>3. CASE Reset
  BY <1>3 DEF Reset, Exists
<1>4. ASSUME NEW t \in tasks,
             Become(t, {[kind |-> "seal", acc |-> t.acc, obj |-> Len(mem) + 1]})
      PROVE  Kinds({"seal"})' # {}
  <2>1. [kind |-> "seal", acc |-> t.acc, obj |-> Len(mem) + 1] \in tasks'
    BY <1>4 DEF Become
  <2>2. QED
    BY <2>1, TaskNow
<1>5. ASSUME NEW t \in tasks, SealKey(t) PROVE FALSE
  BY <1>5, SealFacts
<1>6. CASE Inner
  BY <1>6, InnerFacts, InsideFacts
<1>7. ASSUME NEW t \in tasks, RestoreFile(t) PROVE file' = file
  BY <1>7, RestoreFacts
<1>8. ASSUME NEW t \in tasks, FinishRestore(t) PROVE file' = file
  BY <1>8 DEF FinishRestore, disk
<1>9. QED
  BY <1>2, <1>3, <1>4, <1>5, <1>6, <1>7, <1>8, FileSteps
-----------------------------------------------------------------------------
(* The login screens.                                                      *)

(* The spinner of the login screens stops with the end of a login.         *)
LEMMA BusyStays ==
  ASSUME Next, ~Exit, busy
  PROVE  busy' \/ RunLoginFailed \/ RunLoggedIn
<1> USE DEF dialogs
<1>1. User => busy'
  BY DEF User, LoginWithNsec, Unlock, CreateBackup, SubmitImport, Switch, AddAccount,
         Reset, OpenImport, DismissImport
<1>2. RunClosure => busy' \/ RunLoginFailed \/ RunLoggedIn
  BY DEF RunClosure, RunBootFailed, RunBooted, RunAdded, RunBackedUp, RunRestored, RunMerge,
         RunImportEnded, RunImportDone
<1>3. Worker => busy'
  BY DEF Worker, CreateVault, SealKey, OpenVault, BootPresent, BootStart, BootImport,
         SyncStart, SyncHeal, WriteVault, FindSelf, MakeSelf, AddLogin, CheckPassword,
         ReadFile, FinishBackup, UnpackArchive, RestoreFile, FinishRestore, ReadKeys
<1>4. QED
  BY <1>1, <1>2, <1>3 DEF Next

(* Where there is no vault, one is created at a time.                      *)
LEMMA CreatingStep == CalmStep => Creating'
<1> SUFFICES ASSUME CalmStep, file' = NoVault
             PROVE  /\ screen' = "choose"
                    /\ Kinds(LoginTasks \ {"unpack", "restore"})' = {}
                    /\ ~Posted(LoginClosures)'
                    /\ \A t \in Kinds({"create"})' :
                         /\ busy' /\ Kinds(LoginTasks)' = {} /\ ~Posted({"loginFailed"})'
                         /\ \A s \in Kinds({"create"})' : s = t
                    /\ \A i \in DOMAIN uiq' : uiq'[i].kind = "loginFailed" =>
                         /\ busy'
                         /\ \A j \in DOMAIN uiq' : uiq'[j].kind = "loginFailed" => i = j
  BY DEF Creating
<1> USE DEF CalmStep
<1>1. CASE Reset
  <2>1. tasks' = {} /\ DOMAIN uiq' = {} /\ screen' = "choose"
    BY <1>1, ScreenSteps DEF Reset
  <2>2. QED
    BY <2>1 DEF Kinds, Posted
<1> SUFFICES ASSUME ~Reset
             PROVE  /\ screen' = "choose"
                    /\ Kinds(LoginTasks \ {"unpack", "restore"})' = {}
                    /\ ~Posted(LoginClosures)'
                    /\ \A t \in Kinds({"create"})' :
                         /\ busy' /\ Kinds(LoginTasks)' = {} /\ ~Posted({"loginFailed"})'
                         /\ \A s \in Kinds({"create"})' : s = t
                    /\ \A i \in DOMAIN uiq' : uiq'[i].kind = "loginFailed" =>
                         /\ busy'
                         /\ \A j \in DOMAIN uiq' : uiq'[j].kind = "loginFailed" => i = j
  BY <1>1
<1>2. file = NoVault
  BY KeysStep
<1>3. /\ \A t \in tasks : t.kind \in LoginTasks => t.kind \in {"unpack", "restore"}
      /\ \A i \in DOMAIN uiq : uiq[i].kind \notin LoginClosures
      /\ screen = "choose"
  BY <1>2, NoVaultYet
<1>4. \A t \in tasks : t.kind = "create" =>
        /\ busy /\ (\A r \in tasks : r.kind \notin LoginTasks)
        /\ \A i \in DOMAIN uiq : uiq[i].kind # "loginFailed"
        /\ \A s \in tasks : s.kind = "create" => s = t
  BY <1>2 DEF Calm, Creating, Kinds, Posted
<1>5. \A i \in DOMAIN uiq : uiq[i].kind = "loginFailed" =>
        busy /\ \A j \in DOMAIN uiq : uiq[j].kind = "loginFailed" => i = j
  BY <1>2 DEF Calm, Creating
<1>6. ~RunLoggedIn /\ ~RunBooted /\ ~RunBootFailed /\ ~RunRestored
  BY <1>3, HeadFields DEF RunLoggedIn, RunBooted, RunBootFailed, RunRestored, LoginClosures
<1>7. screen' = "choose"
  BY <1>3, <1>6, ScreenSteps
<1>8. ASSUME NEW t \in tasks, CreateVault(t) PROVE End(t) /\ uiq' # uiq
  <2>1. t.pw \in Passwords
    BY <1>8, TaskFields DEF CreateVault, Kinds
  <2>2. End(t) /\ Post([kind |-> "loginFailed"])
    BY <1>8, <2>1, VaultOps DEF CreateVault
  <2>3. QED
    BY <2>2, Posting
<1>9. ASSUME NEW s \in tasks', s \notin tasks
      PROVE  /\ s.kind \in LoginTasks => s.kind \in {"unpack", "restore"}
             /\ s.kind = "create" => \E a \in Accounts, pw \in Passwords : LoginWithNsec(a, pw)
             /\ s.kind \in LoginTasks =>
                  \/ \E r \in tasks : r.kind \in LoginTasks
                  \/ ~busy
  <2>1. Starts(s)
    BY <1>9, TaskSources
  <2>2. \A pw \in Passwords : ~Unlock(pw)
    BY <1>3 DEF Unlock
  <2>3. \A t \in tasks : ~CreateVault(t)
    BY <1>8, <1>9 DEF End
  <2>4. \A t \in tasks : ~BootStart(t)
    BY <1>3 DEF BootStart, Kinds, LoginTasks
  <2>5. \A t \in tasks : UnpackArchive(t) \/ RestoreFile(t) => t.kind \in LoginTasks
    BY DEF UnpackArchive, RestoreFile, Kinds, LoginTasks
  <2>6. ASSUME NEW pw \in Passwords, SubmitImport(pw), s.kind = "unpack" PROVE ~busy
    <3>1. \/ tasks' = tasks \cup {[kind |-> "readKeys", pw |-> pw]}
          \/ behind' = (behind \/ busy \/ Kinds({"unpack", "restore"}) # {})
      BY <2>6, Zenon DEF SubmitImport, Start
    <3>2. behind' = (behind \/ busy \/ Kinds({"unpack", "restore"}) # {})
      <4>1. tasks' # tasks \cup {[kind |-> "readKeys", pw |-> pw]}
        BY <1>9, <2>6
      <4>2. QED
        BY <3>1, <4>1, Zenon
    <3>3. QED
      BY <3>2, Zenon
  <2>7. QED
    BY <1>6, <2>1, <2>2, <2>3, <2>4, <2>5, <2>6 DEF Starts, Write, AddOf, LoginTasks
<1>10. Kinds(LoginTasks \ {"unpack", "restore"})' = {}
  BY <1>3, <1>9 DEF Kinds
<1>11. ASSUME NEW t \in tasks, NEW c, Post(c), Posts(t, c)
       PROVE  c.kind \notin LoginClosures /\ (c.kind = "loginFailed" => CreateVault(t))
  <2>1. CASE c.kind \in LoginClosures
    <3>1. t.kind \in {"unpack", "restore"}
      BY <1>3, <1>11, <2>1, LoginPosts
    <3>2. FinishRestore(t)
      <4>1. \/ SealKey(t) \/ OpenVault(t) \/ BootPresent(t) \/ BootImport(t)
            \/ FinishRestore(t)
        BY <1>11, <2>1 DEF Posts, LoginClosures
      <4>2. QED
        BY <3>1, <4>1 DEF SealKey, OpenVault, BootPresent, BootImport, Kinds
    <3>3. file = archive.vault /\ archive # NoArchive
      BY <3>2 DEF FinishRestore, Calm, Restores, Kinds
    <3>4. QED
      BY <1>2, <3>3 DEF Calm, Archived, Opens
  <2>2. ASSUME c.kind = "loginFailed" PROVE CreateVault(t)
    <3>1. CreateVault(t) \/ SealKey(t) \/ OpenVault(t)
      BY <1>11, <2>2 DEF Posts
    <3>2. QED
      BY <1>3, <3>1 DEF SealKey, OpenVault, Kinds, LoginTasks
  <2>3. QED
    BY <2>1, <2>2
<1>12. ~Posted(LoginClosures)'
  <2>1. ASSUME NEW t \in tasks, NEW c, Post(c), Posts(t, c) PROVE ~Posted(LoginClosures)'
    BY <1>3, <1>11, <2>1, Posting DEF Posted
  <2>2. CASE uiq # <<>> /\ uiq' = Tail(uiq)
    BY <1>3, <2>2, Taking DEF Posted
  <2>3. QED
    BY <1>3, <2>1, <2>2, ClosureSources DEF Posted
<1>13. ASSUME NEW t \in Kinds({"create"})'
       PROVE  /\ busy' /\ Kinds(LoginTasks)' = {} /\ ~Posted({"loginFailed"})'
              /\ \A s \in Kinds({"create"})' : s = t
  <2>1. CASE \E a \in Accounts, pw \in Passwords : LoginWithNsec(a, pw)
    <3>1. PICK a \in Accounts, pw \in Passwords : LoginWithNsec(a, pw)
      BY <2>1
    <3>2. /\ ~busy /\ busy' /\ modal = "closed" /\ uiq' = uiq
          /\ tasks' = tasks \cup {[kind |-> "create", acc |-> a, pw |-> pw]}
      BY <3>1 DEF LoginWithNsec, Start
    <3>3. \A r \in tasks : r.kind \notin LoginTasks
      BY <1>3, <3>2 DEF Calm, Placed, Kinds
    <3>4. (\A r \in tasks : r.kind # "create")
          /\ \A i \in DOMAIN uiq : uiq[i].kind # "loginFailed"
      BY <1>4, <1>5, <3>2
    <3>5. QED
      BY <3>2, <3>3, <3>4 DEF Kinds, Posted, LoginTasks
  <2>2. CASE \A a \in Accounts, pw \in Passwords : ~LoginWithNsec(a, pw)
    <3>1. t \in tasks /\ t \in tasks' /\ t.kind = "create"
      BY <1>9, <2>2 DEF Kinds
    <3>2. /\ busy /\ (\A r \in tasks : r.kind \notin LoginTasks)
          /\ \A i \in DOMAIN uiq : uiq[i].kind # "loginFailed"
          /\ \A s \in tasks : s.kind = "create" => s = t
      BY <1>4, <3>1
    <3>3. busy'
      <4>1. ~RunLoginFailed
        BY <3>2, HeadFields DEF RunLoginFailed
      <4>2. QED
        BY <1>6, <3>2, <4>1, BusyStays
    <3>4. Kinds(LoginTasks)' = {}
      BY <1>9, <3>2 DEF Kinds
    <3>5. \A s \in Kinds({"create"})' : s = t
      BY <1>9, <2>2, <3>2 DEF Kinds
    <3>6. \A r \in tasks : ~CreateVault(r)
      BY <1>8, <3>1, <3>2 DEF CreateVault, Kinds, End
    <3>7. ~Posted({"loginFailed"})'
      <4>1. ASSUME NEW r \in tasks, NEW c, Post(c), Posts(r, c)
            PROVE  ~Posted({"loginFailed"})'
        BY <1>11, <3>2, <3>6, <4>1, Posting DEF Posted
      <4>2. CASE uiq # <<>> /\ uiq' = Tail(uiq)
        BY <3>2, <4>2, Taking DEF Posted
      <4>3. QED
        BY <3>2, <4>1, <4>2, ClosureSources DEF Posted
    <3>8. QED
      BY <3>3, <3>4, <3>5, <3>7
  <2>3. QED
    BY <2>1, <2>2
<1>14. ASSUME NEW i \in DOMAIN uiq', uiq'[i].kind = "loginFailed"
       PROVE  busy' /\ \A j \in DOMAIN uiq' : uiq'[j].kind = "loginFailed" => i = j
  <2>1. ASSUME NEW t \in tasks, NEW c, Post(c), Posts(t, c), c.kind = "loginFailed"
        PROVE  busy' /\ \A j \in DOMAIN uiq' : uiq'[j].kind = "loginFailed" => i = j
    <3>1. t.kind = "create"
      BY <1>11, <2>1 DEF CreateVault, Kinds
    <3>2. busy /\ \A j \in DOMAIN uiq : uiq[j].kind # "loginFailed"
      BY <1>4, <3>1
    <3>3. busy'
      <4>1. ~RunLoginFailed
        BY <3>2, HeadFields DEF RunLoginFailed
      <4>2. QED
        BY <1>6, <3>2, <4>1, BusyStays
    <3>4. QED
      BY <1>14, <2>1, <3>2, <3>3, Posting
  <2>2. ASSUME NEW t \in tasks, NEW c, Post(c), c.kind # "loginFailed"
        PROVE  busy' /\ \A j \in DOMAIN uiq' : uiq'[j].kind = "loginFailed" => i = j
    <3>1. \A j \in DOMAIN uiq' : uiq'[j].kind = "loginFailed" =>
            j \in DOMAIN uiq /\ uiq[j].kind = "loginFailed"
      BY <2>2, Posting
    <3>2. busy
      BY <1>5, <1>14, <3>1
    <3>3. Len(uiq') = Len(uiq) + 1 /\ Len(uiq) \in Nat
      BY <2>2 DEF Post, TypeOK, Works
    <3>4. ~RunLoginFailed
      BY <3>3, Taking DEF RunLoginFailed
    <3>5. QED
      BY <1>5, <1>6, <1>14, <3>1, <3>2, <3>4, BusyStays
  <2>3. CASE uiq # <<>> /\ uiq' = Tail(uiq)
    <3>1. /\ 1 \in DOMAIN uiq /\ Head(uiq) = uiq[1]
          /\ \A j \in DOMAIN uiq' :
               j + 1 \in DOMAIN uiq /\ j + 1 # 1 /\ j \in Nat /\ uiq'[j] = uiq[j + 1]
      BY <2>3, Taking
    <3>2. busy /\ uiq[1].kind # "loginFailed"
      BY <1>5, <1>14, <3>1
    <3>3. busy'
      BY <1>6, <3>1, <3>2, BusyStays DEF RunLoginFailed
    <3>4. QED
      BY <1>5, <1>14, <3>1, <3>3
  <2>4. CASE uiq' = uiq
    <3>1. ~RunLoginFailed
      BY <2>4, Taking DEF RunLoginFailed
    <3>2. QED
      BY <1>5, <1>6, <1>14, <2>4, <3>1, BusyStays
  <2>5. QED
    BY <2>1, <2>2, <2>3, <2>4, ClosureSources
<1>15. QED
  BY <1>7, <1>10, <1>12, <1>13, <1>14

(* The unlock screen starts one thing and waits for it.                    *)
LEMMA UnlockingStep == CalmStep => Unlocking'
<1> SUFFICES ASSUME CalmStep, screen' = "unlock"
             PROVE  /\ modal' = "closed"
                    /\ \A t \in tasks' : t.kind = "open" /\ busy' /\ uiq' = <<>>
                    /\ \A i \in DOMAIN uiq' :
                         /\ uiq'[i].kind \in {"loggedIn", "loginFailed"} /\ busy'
                         /\ Len(uiq') = 1
  BY DEF Unlocking
<1> USE DEF CalmStep
<1>1. screen = "unlock"
  BY ScreenSteps DEF Reset, RunBootFailed
<1>2. /\ modal = "closed"
      /\ \A t \in tasks : t.kind = "open" /\ busy /\ uiq = <<>>
      /\ \A i \in DOMAIN uiq :
           uiq[i].kind \in {"loggedIn", "loginFailed"} /\ busy /\ Len(uiq) = 1
  BY <1>1 DEF Calm, Unlocking
<1>3. ~RunLoggedIn /\ ~Reset
  BY DEF RunLoggedIn, Reset
<1>4. /\ ~RunBooted /\ ~RunBootFailed /\ ~RunRestored /\ ~RunAdded /\ ~RunMerge
      /\ ~RunImportDone
  BY <1>2, HeadFields
     DEF RunBooted, RunBootFailed, RunRestored, RunAdded, RunMerge, RunImportDone
<1>5. modal' = "closed"
  <2>1. ~OpenImport
    BY <1>1 DEF OpenImport
  <2>2. DismissImport => modal' = "closed"
    BY DEF DismissImport
  <2>3. QED
    BY <1>2, <1>3, <1>4, <2>1, <2>2, ShowWriters DEF Switch, AddLogin, dialogs
<1>6. ASSUME NEW s \in tasks', s \notin tasks
      PROVE  \E pw \in Passwords : Unlock(pw)
  <2>1. Starts(s)
    BY <1>6, TaskSources
  <2>2. ASSUME NEW pw \in Passwords
        PROVE  /\ ~SubmitImport(pw) /\ ~CreateBackup(pw)
               /\ \A a \in Accounts : ~LoginWithNsec(a, pw)
    BY <1>1, <1>2 DEF SubmitImport, CreateBackup, LoginWithNsec
  <2>3. ASSUME NEW a \in Accounts PROVE ~Switch(a) /\ ~AddAccount(a)
    BY <1>1 DEF Switch, AddAccount
  <2>4. ASSUME NEW t \in tasks
        PROVE  /\ ~CreateVault(t) /\ ~BootPresent(t) /\ ~BootImport(t) /\ ~BootStart(t)
               /\ ~SyncStart(t) /\ ~FindSelf(t) /\ ~AddLogin(t) /\ ~CheckPassword(t)
               /\ ~ReadFile(t, "vault") /\ ~ReadFile(t, "home") /\ ~UnpackArchive(t)
               /\ ~RestoreFile(t)
    BY <1>2
       DEF CreateVault, BootPresent, BootImport, BootStart, SyncStart, FindSelf, AddLogin,
           CheckPassword, ReadFile, UnpackArchive, RestoreFile, Kinds
  <2>5. QED
    BY <1>3, <1>4, <2>1, <2>2, <2>3, <2>4 DEF Starts
<1>7. ASSUME NEW pw \in Passwords, Unlock(pw)
      PROVE  tasks' = {[kind |-> "open", pw |-> pw]} /\ busy' /\ uiq' = <<>>
  BY <1>1, <1>7, Idle DEF Unlock, Start
<1>8. ASSUME NEW t \in tasks, NEW c, Post(c), Posts(t, c)
      PROVE  OpenVault(t) /\ c.kind \in {"loggedIn", "loginFailed"}
  <2>1. t.kind = "open"
    BY <1>2
  <2>2. OpenVault(t)
    BY <1>8, <2>1
       DEF Posts, CreateVault, SealKey, BootPresent, BootImport, AddLogin, CheckPassword,
           FinishBackup, UnpackArchive, RestoreFile, ReadKeys, FinishRestore, Kinds
  <2>3. c.kind \in {"loggedIn", "loginFailed"}
    <3>1. \E d : Post(d) /\ d.kind \in {"loggedIn", "loginFailed"}
      BY <2>2 DEF OpenVault
    <3>2. QED
      BY <1>8, <3>1, Posting
  <2>4. QED
    BY <2>2, <2>3
<1>9. ASSUME NEW t \in tasks' PROVE t.kind = "open" /\ busy' /\ uiq' = <<>>
  <2>1. CASE t \notin tasks
    BY <1>6, <1>7, <2>1
  <2>2. CASE t \in tasks
    <3>1. t.kind = "open" /\ busy /\ uiq = <<>>
      BY <1>2, <2>2
    <3>2. ASSUME NEW r \in tasks, OpenVault(r) PROVE FALSE
      <4>1. r = t
        BY <2>2, <3>1, <3>2 DEF OpenVault, Calm, OneLogin, Kinds, LoginTasks
      <4>2. QED
        BY <3>2, <4>1 DEF OpenVault, End
    <3>3. uiq' = <<>>
      BY <1>8, <3>1, <3>2, ClosureSources
    <3>4. busy'
      BY <1>3, <3>1, BusyStays DEF RunLoginFailed
    <3>5. QED
      BY <3>1, <3>3, <3>4
  <2>3. QED
    BY <2>1, <2>2
<1>10. ASSUME NEW i \in DOMAIN uiq'
       PROVE  uiq'[i].kind \in {"loggedIn", "loginFailed"} /\ busy' /\ Len(uiq') = 1
  <2>1. ASSUME NEW t \in tasks, NEW c, Post(c), Posts(t, c)
        PROVE  uiq'[i].kind \in {"loggedIn", "loginFailed"} /\ busy' /\ Len(uiq') = 1
    <3>1. uiq = <<>> /\ busy /\ c.kind \in {"loggedIn", "loginFailed"}
      BY <1>2, <1>8, <2>1
    <3>2. uiq' = <<c>>
      BY <2>1, <3>1 DEF Post
    <3>3. busy'
      BY <1>3, <3>1, BusyStays DEF RunLoginFailed
    <3>4. QED
      BY <3>1, <3>2, <3>3
  <2>2. CASE uiq # <<>> /\ uiq' = Tail(uiq)
    <3>1. Len(uiq) = 1 /\ i + 1 \in DOMAIN uiq /\ i + 1 # 1 /\ i \in Nat
      BY <1>2, <2>2, Taking
    <3>2. QED
      BY <3>1 DEF TypeOK, Works
  <2>3. CASE uiq' = uiq
    <3>1. ~RunLoginFailed
      BY <2>3, Taking DEF RunLoginFailed
    <3>2. QED
      BY <1>2, <1>3, <2>3, <3>1, BusyStays
  <2>4. QED
    BY <2>1, <2>2, <2>3, ClosureSources
<1>11. QED
  BY <1>5, <1>9, <1>10

(* The archive is written by a backup only.                                *)
LEMMA ArchiveWriters ==
  ASSUME Next, ~(UNCHANGED <<archive, bare>>)
  PROVE  \E t \in tasks : FinishBackup(t)
BY DiskWriters
   DEF Reset, CreateVault, SealKey, BootPresent, BootStart, BootImport, SyncStart, SyncHeal,
       WriteVault, MakeSelf, AddLogin, RestoreFile, FinishRestore, disk, saved

(* Nobody else writes the files of a restore.                              *)
LEMMA RestoreAlone ==
  ASSUME CalmStep,
         (\E t \in tasks : t.kind \in {"unpack", "restore"}) \/ Posted({"restored"})
  PROVE  UNCHANGED <<archive, bare>> /\ (file' = file \/ \E t \in tasks : RestoreFile(t))
<1> USE DEF CalmStep
<1>1. screen = "choose"
  BY DEF Calm, Placed, Kinds
<1>2. UNCHANGED <<archive, bare>>
  <2>1. ASSUME NEW t \in tasks PROVE ~FinishBackup(t)
    BY <1>1 DEF FinishBackup, Calm, Placed, Kinds
  <2>2. QED
    BY <2>1, ArchiveWriters
<1>3. ~Reset
  BY <1>1 DEF Reset
<1>4. ASSUME NEW t \in tasks, t.kind = "create", file = NoVault PROVE FALSE
  BY <1>4 DEF Calm, Creating, Kinds, Posted, LoginTasks, LoginClosures
<1>5. ASSUME NEW t \in tasks, SealKey(t) PROVE FALSE
  BY <1>5
     DEF SealKey, Calm, OneLogin, Kinds, Posted, LoginTasks, LoginClosures
<1>6. ~Inner
  BY <1>1, InnerFacts DEF Inside
<1>7. ASSUME NEW t \in tasks, FinishRestore(t) PROVE file' = file
  BY <1>7 DEF FinishRestore, disk
<1>8. QED
  BY <1>2, <1>3, <1>4, <1>5, <1>6, <1>7, FileSteps

(* The files of a restore come from the archive, in either order.          *)
LEMMA RestoresStep == CalmStep => Restores'
<1> SUFFICES ASSUME CalmStep PROVE Restores'
  OBVIOUS
<1> USE DEF CalmStep
<1>1. /\ \A t \in tasks : t.kind = "unpack" => archive # NoArchive /\ file = NoVault
      /\ \A t \in tasks : t.kind = "restore" =>
           /\ archive # NoArchive
           /\ file = IF t.todo \in {<<"home">>, <<>>} THEN archive.vault ELSE NoVault
      /\ Posted({"restored"}) => archive # NoArchive /\ file = archive.vault
  BY DEF Calm, Restores, Kinds
<1>2. \A r, t \in tasks : r.kind \in LoginTasks /\ t.kind \in LoginTasks => r = t
  BY DEF Calm, OneLogin, Kinds
<1>3. ASSUME NEW r \in tasks, RestoreFile(r)
      PROVE  /\ r.kind = "restore" /\ ~Posted({"restored"})
             /\ \A t \in tasks' : t.kind \in {"unpack", "restore"} =>
                  t = [kind |-> "restore", pw |-> r.pw, todo |-> Tail(r.todo)]
  <2>1. r.kind = "restore"
    BY <1>3 DEF RestoreFile, Kinds
  <2>2. tasks' \subseteq (tasks \ {r})
                         \cup {[kind |-> "restore", pw |-> r.pw, todo |-> Tail(r.todo)]}
    BY <1>3, RestoreFacts DEF End, Become
  <2>3. \A t \in tasks \ {r} : t.kind \notin LoginTasks
    BY <1>2, <2>1 DEF LoginTasks
  <2>4. QED
    BY <2>1, <2>2, <2>3 DEF Calm, OneLogin, Kinds, Posted, LoginTasks, LoginClosures
<1>4. ASSUME NEW t \in tasks', t.kind = "unpack" PROVE archive' # NoArchive /\ file' = NoVault
  <2>1. CASE t \in tasks
    BY <1>1, <1>3, <1>4, <2>1, RestoreAlone
  <2>2. CASE t \notin tasks
    <3>1. PICK pw \in Passwords : SubmitImport(pw)
      <4>1. Starts(t)
        BY <2>2, TaskSources
      <4>2. QED
        BY <1>4, <4>1 DEF Starts, Write, AddOf
    <3>2. \/ tasks' = tasks \cup {[kind |-> "readKeys", pw |-> pw]}
          \/ MayRestore
      BY <3>1, Zenon DEF SubmitImport, Start
    <3>3. MayRestore
      BY <1>4, <2>2, <3>2
    <3>4. archive # NoArchive /\ UNCHANGED <<archive, file>>
      BY <3>1 DEF SubmitImport, disk, saved
    <3>5. QED
      BY <3>3, <3>4 DEF MayRestore, Exists
  <2>3. QED
    BY <2>1, <2>2
<1>5. ASSUME NEW t \in tasks', t.kind = "restore"
      PROVE  /\ archive' # NoArchive
             /\ file' = IF t.todo \in {<<"home">>, <<>>} THEN archive'.vault ELSE NoVault
  <2>1. CASE \E r \in tasks : RestoreFile(r)
    <3>1. PICK r \in tasks : RestoreFile(r)
      BY <2>1
    <3>2. t = [kind |-> "restore", pw |-> r.pw, todo |-> Tail(r.todo)]
      BY <1>3, <1>5, <3>1
    <3>3. /\ archive # NoArchive /\ archive' = archive
          /\ file = IF r.todo \in {<<"home">>, <<>>} THEN archive.vault ELSE NoVault
      BY <1>1, <1>3, <3>1, RestoreFacts
    <3>4. ~(End(r) /\ Post([kind |-> "importEnded"]))
      <4>1. \A s \in tasks \ {r} : s.kind \notin LoginTasks
        BY <1>2, <1>3, <3>1 DEF LoginTasks
      <4>2. QED
        BY <1>5, <4>1 DEF End, LoginTasks
    <3>5. CASE r.todo \in {<<"vault", "home">>, <<"vault">>}
      <4>1. file' = archive.vault /\ t.todo \in {<<"home">>, <<>>}
        <5>1. r.todo \notin {<<"home", "vault">>, <<"home">>}
          BY <3>5
        <5>2. Tail(r.todo) \in {<<"home">>, <<>>}
          <6>1. CASE r.todo = <<"vault", "home">>
            BY <6>1
          <6>2. CASE r.todo = <<"vault">>
            BY <6>2
          <6>3. QED
            BY <3>5, <6>1, <6>2
        <5>3. QED
          BY <3>1, <3>2, <3>4, <5>1, <5>2, RestoreFacts
      <4>2. QED
        BY <3>3, <4>1
    <3>6. CASE r.todo = <<"home", "vault">>
      <4>1. file' = file /\ t.todo = <<"vault">> /\ file = NoVault
        <5>1. r.todo \notin {<<"vault", "home">>, <<"vault">>, <<"home">>, <<>>}
          BY <3>6
        <5>2. Tail(r.todo) = <<"vault">>
          BY <3>6
        <5>3. QED
          BY <3>1, <3>2, <3>3, <3>4, <5>1, <5>2, RestoreFacts
      <4>2. t.todo \notin {<<"home">>, <<>>}
        BY <4>1
      <4>3. QED
        BY <3>3, <4>1, <4>2
    <3>7. CASE r.todo = <<"home">>
      <4>1. file' = file /\ t.todo = <<>> /\ file = archive.vault
        <5>1. r.todo \notin {<<"vault", "home">>, <<"vault">>}
          BY <3>7
        <5>2. Tail(r.todo) = <<>>
          BY <3>7
        <5>3. QED
          BY <3>1, <3>2, <3>3, <3>4, <3>7, <5>1, <5>2, RestoreFacts
      <4>2. QED
        BY <3>3, <4>1
    <3>8. QED
      BY <3>1, <3>4, <3>5, <3>6, <3>7, RestoreFacts
  <2>2. CASE t \in tasks /\ \A r \in tasks : ~RestoreFile(r)
    BY <1>1, <1>5, <2>2, RestoreAlone
  <2>3. CASE t \notin tasks /\ \A r \in tasks : ~RestoreFile(r)
    <3>1. PICK r \in tasks, todo \in {<<"vault", "home">>, <<"home", "vault">>} :
            UnpackArchive(r) /\ t = [kind |-> "restore", pw |-> r.pw, todo |-> todo]
      <4>1. Starts(t)
        BY <2>3, TaskSources
      <4>2. QED
        BY <1>5, <2>3, <4>1 DEF Starts, Write, AddOf
    <3>2. r.kind = "unpack" /\ UNCHANGED <<archive, file>>
      BY <3>1 DEF UnpackArchive, disk, saved, Kinds
    <3>3. t.todo \notin {<<"home">>, <<>>}
      <4>1. t.todo = todo
        BY <3>1
      <4>2. CASE t.todo = <<"vault", "home">>
        BY <4>2
      <4>3. CASE t.todo = <<"home", "vault">>
        BY <4>3
      <4>4. QED
        BY <4>1, <4>2, <4>3
    <3>4. QED
      BY <1>1, <3>2, <3>3
  <2>4. QED
    BY <2>1, <2>2, <2>3
<1>6. ASSUME Posted({"restored"})' PROVE archive' # NoArchive /\ file' = archive'.vault
  <2>1. CASE Posted({"restored"})
    BY <1>1, <1>3, <2>1, RestoreAlone
  <2>2. CASE ~Posted({"restored"})
    <3>1. PICK t \in tasks : \E c : Posts(t, c) /\ c.kind = "restored"
      <4>1. PICK i \in DOMAIN uiq' : uiq'[i].kind = "restored"
        BY <1>6 DEF Posted
      <4>2. ~(uiq' = uiq) /\ ~(uiq # <<>> /\ uiq' = Tail(uiq))
        BY <2>2, <4>1, Taking DEF Posted
      <4>3. PICK t \in tasks : \E c : Post(c) /\ Posts(t, c)
        BY <4>2, ClosureSources
      <4>4. PICK c : Post(c) /\ Posts(t, c)
        BY <4>3
      <4>5. c.kind = "restored"
        BY <2>2, <4>1, <4>4, Posting DEF Posted
      <4>6. QED
        BY <4>4, <4>5
    <3>2. FinishRestore(t)
      BY <3>1 DEF Posts
    <3>3. t.kind = "restore" /\ t.todo = <<>> /\ UNCHANGED <<file, archive>>
      BY <3>2 DEF FinishRestore, Kinds, disk, saved
    <3>4. QED
      BY <1>1, <3>3
  <2>3. QED
    BY <2>1, <2>2
<1>7. QED
  BY <1>4, <1>5, <1>6 DEF Restores, Kinds

(* Nobody else writes the vault or the objects of a login.                 *)
LEMMA LoginAlone ==
  ASSUME CalmStep, NEW ks, ks \in {{"seal"}, {"loggedIn"}, {"boot", "import"}},
         \/ ks # {"loggedIn"} /\ \E t \in tasks : t.kind \in ks
         \/ ks = {"loggedIn"} /\ \E i \in DOMAIN uiq : uiq[i].kind \in ks
  PROVE  \/ /\ file' = file
            /\ \A i \in DOMAIN mem : i \in DOMAIN mem' /\ mem'[i] = mem[i]
         \/ ks = {"seal"} /\ \E t \in tasks : SealKey(t)
         \/ ks = {"boot", "import"} /\ Inner
<1> USE DEF CalmStep
<1>1. ~(tasks = {} /\ DOMAIN uiq = {})
  OBVIOUS
<1>2. ks # {"loggedIn"} => \E t \in tasks : t.kind \in ks /\ t.kind \in LoginTasks
  BY DEF LoginTasks
<1>3. ks = {"loggedIn"} => \E i \in DOMAIN uiq : uiq[i].kind = "loggedIn"
  OBVIOUS
<1>4. ASSUME NEW t \in tasks, t.kind \in LoginTasks
      PROVE  ks # {"loggedIn"} /\ t.kind \in ks
  BY <1>2, <1>3, <1>4 DEF Calm, OneLogin, Kinds, Posted, LoginClosures
<1>5. file # NoVault
  <2>1. CASE ks = {"loggedIn"}
    BY <1>3, <2>1, NoVaultYet DEF LoginClosures
  <2>2. CASE ks # {"loggedIn"}
    BY <1>2, <2>2, NoVaultYet
  <2>3. QED
    BY <2>1, <2>2
<1>6. ASSUME NEW t \in tasks, SealKey(t) PROVE ks = {"seal"}
  BY <1>4, <1>6 DEF SealKey, Kinds, LoginTasks
<1>7. ASSUME NEW t \in tasks, RestoreFile(t) \/ FinishRestore(t) PROVE FALSE
  BY <1>4, <1>7 DEF RestoreFile, FinishRestore, Kinds, LoginTasks
<1>8. Inner => ks = {"boot", "import"}
  <2>1. ks = {"seal"} => screen = "choose"
    BY <1>2 DEF Calm, Placed, Kinds
  <2>2. ks = {"loggedIn"} => screen \in {"choose", "unlock"}
    BY <1>3 DEF Calm, Placed, Posted
  <2>3. QED
    BY <2>1, <2>2, InnerFacts DEF Inside
<1>9. mem' = mem \/ mem' = Append(mem, file) =>
        \A i \in DOMAIN mem : i \in DOMAIN mem' /\ mem'[i] = mem[i]
  BY NewObject DEF TypeOK, Stored
<1>10. QED
  BY <1>1, <1>5, <1>6, <1>7, <1>8, <1>9, FileSteps

(* A boot leaves the record of the active account as it finds it.          *)
LEMMA BootActive ==
  ASSUME CalmStep, NEW t \in tasks, t.kind \in {"boot", "import"}
  PROVE  file'.active = file.active
<1> USE DEF CalmStep
<1>1. screen = "booting" /\ ~raced
  BY DEF Calm, Placed, Object, Kinds
<1>2. \A r \in tasks : ~WriteVault(r)
  BY <1>1 DEF WriteVault, Calm, Placed, Kinds
<1>3. {"boot", "import"} # {"seal"} /\ {"boot", "import"} # {"loggedIn"}
  OBVIOUS
<1>4. file' = file \/ Inner
  BY <1>3, LoginAlone
<1>5. QED
  BY <1>1, <1>2, <1>4, InnerFacts

(* What a login has opened or sealed is the file when the boot starts.     *)
LEMMA LoginStep == CalmStep => Login'
<1> SUFFICES ASSUME CalmStep PROVE Login'
  OBVIOUS
<1> USE DEF CalmStep
<1>1. /\ \A t \in tasks : t.kind = "seal" =>
           mem[t.obj] = file /\ file # NoVault /\ file.nsec = None /\ file.active = None
      /\ \A i \in DOMAIN uiq : uiq[i].kind = "loggedIn" =>
           mem[uiq[i].obj] = file /\ file.nsec # None /\ uiq[i].hint = file.active
      /\ \A t \in tasks : t.kind \in {"boot", "import"} => t.hint = file.active
  BY DEF Calm, Login, Kinds
<1>2. \A r, t \in tasks : r.kind \in LoginTasks /\ t.kind \in LoginTasks => r = t
  BY DEF Calm, OneLogin, Kinds
<1>3. ASSUME NEW t \in tasks', t.kind = "seal"
      PROVE  mem'[t.obj] = file' /\ file' # NoVault /\ file'.nsec = None /\ file'.active = None
  <2>1. CASE t \in tasks
    <3>1. ASSUME NEW r \in tasks, SealKey(r) PROVE FALSE
      <4>1. r = t
        BY <1>2, <1>3, <2>1, <3>1 DEF SealKey, Kinds, LoginTasks
      <4>2. QED
        BY <3>1, <4>1 DEF SealKey, End
    <3>2. t.obj \in DOMAIN mem
      BY <1>3, <2>1, TaskFields
    <3>3. file' = file /\ mem'[t.obj] = mem[t.obj]
      <4>1. {"seal"} # {"loggedIn"} /\ {"seal"} # {"boot", "import"}
        OBVIOUS
      <4>2. QED
        BY <1>3, <2>1, <3>1, <3>2, <4>1, LoginAlone
    <3>4. QED
      BY <1>1, <1>3, <2>1, <3>3
  <2>2. CASE t \notin tasks
    <3>1. PICK r \in tasks :
            /\ CreateVault(r) /\ t.obj = Len(mem) + 1 /\ mem' = Append(mem, Empty(r.pw))
      <4>1. Starts(t)
        BY <2>2, TaskSources
      <4>2. QED
        BY <1>3, <4>1 DEF Starts, Write, AddOf
    <3>2. r.pw \in Passwords
      BY <3>1, TaskFields DEF CreateVault, Kinds
    <3>3. file' = Empty(r.pw)
      BY <2>2, <3>1 DEF CreateVault, End
    <3>4. mem'[t.obj] = Empty(r.pw)
      BY <3>1, <3>2, VaultOps, NewObject
    <3>5. QED
      BY <3>2, <3>3, <3>4, VaultOps DEF Empty
  <2>3. QED
    BY <2>1, <2>2
<1>4. ASSUME NEW i \in DOMAIN uiq, uiq[i].kind = "loggedIn"
      PROVE  mem'[uiq[i].obj] = file' /\ file'.nsec # None /\ uiq[i].hint = file'.active
  <2>1. uiq[i].obj \in DOMAIN mem
    BY <1>4 DEF Refers
  <2>2. {"loggedIn"} # {"seal"} /\ {"loggedIn"} # {"boot", "import"}
    OBVIOUS
  <2>3. file' = file /\ mem'[uiq[i].obj] = mem[uiq[i].obj]
    BY <1>4, <2>1, <2>2, LoginAlone
  <2>4. QED
    BY <1>1, <1>4, <2>3
<1>5. ASSUME NEW t \in tasks, NEW c, Post(c), Posts(t, c), c.kind = "loggedIn"
      PROVE  mem'[c.obj] = file' /\ file'.nsec # None /\ c.hint = file'.active
  <2>1. CASE /\ SealKey(t) /\ file'.nsec = t.acc
             /\ c = [kind |-> "loggedIn", acc |-> t.acc, obj |-> t.obj, hint |-> None]
    <3>1. t.acc # None
      BY <2>1, SealFacts
    <3>2. file' = mem'[t.obj]
      BY <2>1, <3>1, SealFacts
    <3>3. QED
      BY <2>1, <3>1, <3>2, SealFacts
  <2>2. CASE /\ OpenVault(t) /\ file.nsec # None /\ mem' = Append(mem, file)
             /\ c = [kind |-> "loggedIn", acc |-> file.nsec, obj |-> Len(mem) + 1,
                     hint |-> file.active]
    <3>1. file' = file /\ file \in Vault
      BY <2>2 DEF OpenVault, disk, TypeOK, Stored
    <3>2. mem'[Len(mem) + 1] = file
      BY <2>2, <3>1, NewObject
    <3>3. QED
      BY <2>2, <3>1, <3>2
  <2>3. QED
    BY <1>5, <2>1, <2>2 DEF Posts
<1>6. ASSUME NEW i \in DOMAIN uiq', uiq'[i].kind = "loggedIn"
      PROVE  mem'[uiq'[i].obj] = file' /\ file'.nsec # None /\ uiq'[i].hint = file'.active
  <2>1. CASE uiq' = uiq
    BY <1>4, <1>6, <2>1
  <2>2. CASE uiq # <<>> /\ uiq' = Tail(uiq)
    BY <1>4, <1>6, <2>2, Taking
  <2>3. ASSUME NEW t \in tasks, NEW c, Post(c), Posts(t, c)
        PROVE  mem'[uiq'[i].obj] = file' /\ file'.nsec # None /\ uiq'[i].hint = file'.active
    BY <1>4, <1>5, <1>6, <2>3, Posting
  <2>4. QED
    BY <2>1, <2>2, <2>3, ClosureSources
<1>7. ASSUME NEW t \in tasks, t.kind \in {"boot", "import"} PROVE file'.active = file.active
  BY <1>7, BootActive
<1>8. ASSUME NEW t \in tasks', t.kind \in {"boot", "import"} PROVE t.hint = file'.active
  <2>1. CASE t \in tasks
    BY <1>1, <1>7, <1>8, <2>1
  <2>2. CASE t \notin tasks
    <3>1. \/ RunLoggedIn /\ t.hint = Head(uiq).hint
          \/ \E r \in tasks : BootStart(r) /\ t.hint = r.hint
      <4>1. Starts(t)
        BY <2>2, TaskSources
      <4>2. QED
        BY <1>8, <4>1 DEF Starts, Write, AddOf
    <3>2. CASE RunLoggedIn /\ t.hint = Head(uiq).hint
      <4>1. uiq # <<>> /\ Head(uiq).kind = "loggedIn" /\ file' = file
        BY <3>2 DEF RunLoggedIn, disk
      <4>2. Head(uiq).hint = file.active
        BY <1>1, <4>1, HeadFields
      <4>3. QED
        BY <3>2, <4>1, <4>2
    <3>3. ASSUME NEW r \in tasks, BootStart(r), t.hint = r.hint PROVE t.hint = file'.active
      <4>1. r.kind = "boot"
        BY <3>3 DEF BootStart, Kinds
      <4>2. QED
        BY <1>1, <1>7, <3>3, <4>1
    <3>4. QED
      BY <3>1, <3>2, <3>3
  <2>3. QED
    BY <2>1, <2>2
<1>9. QED
  BY <1>3, <1>6, <1>8 DEF Login, Kinds
-----------------------------------------------------------------------------
(* The session and the object it writes through.                           *)

(* A session has one object.                                               *)
LEMMA CellStays == Next /\ ~RunLoggedIn /\ ~Exit => cell' = cell
BY ObjectWriters
   DEF CreateVault, OpenVault, SealKey, WriteVault, BootStart, BootImport, SyncStart, SyncHeal,
       AddLogin, session

(* What has raced stays so until the process ends.                         *)
LEMMA RacedStays == Next /\ ~Exit /\ raced => raced'
BY Zenon DEF Next, User, Worker, RunClosure, LoginWithNsec, Unlock, CreateBackup,
   SubmitImport, Switch, AddAccount, Reset, OpenImport, DismissImport, CreateVault,
   SealKey, OpenVault, BootPresent, BootStart, BootImport, SyncStart, SyncHeal,
   WriteVault, FindSelf, MakeSelf, AddLogin, CheckPassword, ReadFile, FinishBackup,
   UnpackArchive, RestoreFile, FinishRestore, ReadKeys, RunLoginFailed, RunLoggedIn,
   RunBootFailed, RunBooted, RunAdded, RunBackedUp, RunRestored, RunMerge,
   RunImportEnded, RunImportDone, SwitchTo, history

(* These may let one record of the active account overtake another.        *)
LEMMA RacedWriters ==
  ASSUME Next, raced'
  PROVE  \/ raced \/ RunBooted \/ RunAdded
         \/ \E a \in Accounts : Switch(a)
         \/ \E t \in tasks : WriteVault(t)
BY Zenon DEF Next, User, Worker, RunClosure, LoginWithNsec, Unlock, CreateBackup,
   SubmitImport, AddAccount, Reset, OpenImport, DismissImport, Exit, CreateVault,
   SealKey, OpenVault, BootPresent, BootStart, BootImport, SyncStart, SyncHeal,
   FindSelf, MakeSelf, AddLogin, CheckPassword, ReadFile, FinishBackup,
   UnpackArchive, RestoreFile, FinishRestore, ReadKeys, RunLoginFailed, RunLoggedIn,
   RunBootFailed, RunBackedUp, RunRestored, RunMerge, RunImportEnded, RunImportDone, history

(* Once ready, the session is until the process ends.                      *)
LEMMA ReadyStays == CalmStep /\ screen = "ready" => screen' = "ready"
BY ScreenSteps DEF Reset

(* The object of the session has all that the file has.                    *)
LEMMA ObjectStep == CalmStep => Object'
<1> SUFFICES ASSUME CalmStep PROVE Object'
  OBVIOUS
<1> USE DEF CalmStep
<1>1. ASSUME raced' PROVE screen' = "ready"
  <2>1. CASE raced
    BY <2>1, ReadyStays DEF Calm, Object
  <2>2. CASE RunBooted
    BY <2>2 DEF RunBooted
  <2>3. CASE RunAdded
    BY <2>3, HeadFields, ReadyStays DEF RunAdded, Calm, Placed, Posted
  <2>4. ASSUME NEW a \in Accounts, Switch(a) PROVE screen' = "ready"
    BY <2>4, ReadyStays DEF Switch
  <2>5. ASSUME NEW t \in tasks, WriteVault(t) PROVE screen' = "ready"
    BY <2>5, ReadyStays DEF WriteVault, Calm, Placed, Kinds
  <2>6. QED
    BY <1>1, <2>1, <2>2, <2>3, <2>4, <2>5, RacedWriters
<1> DEFINE Good == /\ file'.nsec # None /\ mem'[cell'].nsec = file'.nsec
                   /\ mem'[cell'].pw = file'.pw
                   /\ file'.backups \subseteq mem'[cell'].backups
                   /\ home' \ orphans' \subseteq mem'[cell'].secrets
                   /\ raced' \/ mem'[cell'] = file'
<1>2. ASSUME screen' \in Inside PROVE Good
  <2>1. CASE RunLoggedIn
    <3>1. /\ uiq # <<>> /\ Head(uiq).kind = "loggedIn" /\ cell' = Head(uiq).obj
          /\ UNCHANGED <<mem, file, home, orphans>>
      BY <2>1 DEF RunLoggedIn, disk, history
    <3>2. mem[Head(uiq).obj] = file /\ file.nsec # None
      BY <3>1, HeadFields DEF Calm, Login
    <3>3. home \ orphans \subseteq file.secrets
      BY Zenon DEF Calm, AccountsHaveSecrets
    <3>4. QED
      BY <3>1, <3>2, <3>3
  <2>2. CASE ~RunLoggedIn
    <3>1. screen \in Inside
      BY <1>2, <2>2, ScreenSteps DEF Inside, Reset
    <3>2. cell' = cell
      BY <2>2, CellStays
    <3>3. /\ cell \in DOMAIN mem
          /\ file.nsec # None /\ mem[cell].nsec = file.nsec /\ mem[cell].pw = file.pw
          /\ file.backups \subseteq mem[cell].backups
          /\ home \ orphans \subseteq mem[cell].secrets
          /\ raced \/ mem[cell] = file
          /\ file # NoVault
      BY <3>1, InsideFacts
    <3>4. CASE Inner
      BY <3>2, <3>3, <3>4, InnerFacts
    <3>5. ASSUME UNCHANGED <<file, home, orphans>>,
                 mem' = mem \/ mem' = Append(mem, file)
          PROVE  Good
      <4>1. mem'[cell] = mem[cell]
        BY <3>3, <3>5, NewObject DEF TypeOK, Stored
      <4>2. raced' \/ mem[cell] = file
        BY <3>3, RacedStays
      <4>3. QED
        BY <3>2, <3>3, <3>5, <4>1, <4>2
    <3>6. ~Reset
      BY <3>1 DEF Reset, Inside
    <3>7. ASSUME NEW t \in tasks PROVE ~SealKey(t) /\ ~RestoreFile(t) /\ ~FinishRestore(t)
      BY <3>1 DEF SealKey, RestoreFile, FinishRestore, Calm, Placed, Kinds, Inside
    <3>8. QED
      BY <3>3, <3>4, <3>5, <3>6, <3>7, FileSteps
  <2>3. QED
    BY <2>1, <2>2
<1>3. \A t \in tasks : t.kind \in {"boot", "import", "sync", "heal", "write"} => t.obj = cell
  BY DEF Calm, Object, Kinds
<1>4. \A i \in DOMAIN uiq : uiq[i].kind = "booted" => uiq[i].obj = cell /\ screen = "booting"
  BY DEF Calm, Object, Placed, Posted
<1>5. ASSUME NEW t \in tasks', t.kind \in {"boot", "import", "sync", "heal", "write"}
      PROVE  t.obj = cell'
  <2>1. CASE RunLoggedIn
    <3>1. cell' = Head(uiq).obj
          /\ tasks' = tasks \cup {[kind |-> "boot", acc |-> Head(uiq).acc,
                                   obj |-> Head(uiq).obj, hint |-> Head(uiq).hint]}
      BY <2>1 DEF RunLoggedIn, Start
    <3>2. screen \in {"choose", "unlock"} /\ \A s \in tasks : s.kind \notin LoginTasks
      <4>1. 1 \in DOMAIN uiq /\ uiq[1].kind = "loggedIn"
        BY <2>1, HeadFields DEF RunLoggedIn
      <4>2. QED
        BY <4>1 DEF Calm, Placed, OneLogin, Kinds, Posted, LoginClosures
    <3>3. t \notin tasks
      <4>1. ~Posted({"booted"})
        BY <1>4, <3>2 DEF Posted
      <4>2. QED
        BY <1>5, <3>2, <4>1 DEF Calm, Placed, Kinds, LoginTasks
    <3>4. QED
      BY <3>1, <3>3
  <2>2. CASE ~RunLoggedIn
    <3>1. cell' = cell
      BY <2>2, CellStays
    <3>2. CASE t \in tasks
      BY <1>3, <1>5, <3>1, <3>2
    <3>3. CASE t \notin tasks
      <4>1. Starts(t)
        BY <3>3, TaskSources
      <4>2. RunBooted => Head(uiq).obj = cell
        BY <1>4, HeadFields DEF RunBooted
      <4>3. \A r \in tasks : BootPresent(r) \/ BootImport(r) \/ BootStart(r) \/ SyncStart(r)
                               => r.obj = cell
        BY <1>3 DEF BootPresent, BootImport, BootStart, SyncStart, Kinds
      <4>4. QED
        BY <1>5, <2>2, <3>1, <4>1, <4>2, <4>3 DEF Starts, Write, AddOf
    <3>4. QED
      BY <3>2, <3>3
  <2>3. QED
    BY <2>1, <2>2
<1>6. ASSUME NEW i \in DOMAIN uiq', uiq'[i].kind = "booted" PROVE uiq'[i].obj = cell'
  <2>1. ASSUME NEW t \in tasks, NEW c, Post(c), Posts(t, c) PROVE uiq'[i].obj = cell'
    <3>1. c.kind = "booted" => c.obj = cell
      <4>1. c.kind = "booted" => (BootPresent(t) \/ BootImport(t)) /\ c.obj = t.obj
        BY <2>1 DEF Posts
      <4>2. QED
        BY <1>3, <4>1 DEF BootPresent, BootImport, Kinds
    <3>2. ~RunLoggedIn
      <4>1. Len(uiq') = Len(uiq) + 1 /\ Len(uiq) \in Nat
        BY <2>1 DEF Post, TypeOK, Works
      <4>2. QED
        BY <4>1, Taking DEF RunLoggedIn
    <3>3. cell' = cell
      BY <3>2, CellStays
    <3>4. QED
      BY <1>4, <1>6, <2>1, <3>1, <3>3, Posting
  <2>2. CASE uiq # <<>> /\ uiq' = Tail(uiq)
    <3>1. i + 1 \in DOMAIN uiq /\ uiq'[i] = uiq[i + 1]
      BY <2>2, Taking
    <3>2. screen = "booting" /\ uiq'[i].obj = cell
      BY <1>4, <1>6, <3>1
    <3>3. ~RunLoggedIn
      BY <3>2, ScreenSteps, HeadFields DEF RunLoggedIn, Calm, Placed, Posted
    <3>4. QED
      BY <3>2, <3>3, CellStays
  <2>3. CASE uiq' = uiq
    <3>1. ~RunLoggedIn
      BY <2>3, Taking DEF RunLoggedIn
    <3>2. QED
      BY <1>4, <1>6, <2>3, <3>1, CellStays
  <2>4. QED
    BY <2>1, <2>2, <2>3, ClosureSources
<1>7. (raced' => screen' = "ready") /\ (screen' \in Inside => Good)
  BY <1>1, <1>2
<1>8. \A t \in Kinds({"boot", "import", "sync", "heal", "write"})' : t.obj = cell'
  BY <1>5 DEF Kinds
<1>9. QED
  BY <1>6, <1>7, <1>8, Zenon DEF Object
-----------------------------------------------------------------------------
(* Backups.                                                                *)

(* A backup that is under way notes that accounts change.                  *)
LEMMA TornSteps ==
  ASSUME CalmStep, NEW t \in tasks, t.kind = "backup"
  PROVE  torn' \/ (~torn /\ UNCHANGED <<home, orphans>>)
<1> USE DEF CalmStep
<1>1. screen = "ready"
  BY DEF Calm, Placed, Kinds
<1>2. ASSUME NEW r \in tasks PROVE ~CheckPassword(r)
  BY DEF CheckPassword, OneBackup, Kinds
<1>3. torn => torn'
  BY <1>2, Zenon DEF Next, User, Worker, RunClosure, LoginWithNsec, Unlock, CreateBackup,
     SubmitImport, Switch, AddAccount, Reset, OpenImport, DismissImport, CreateVault,
     SealKey, OpenVault, BootPresent, BootStart, BootImport, SyncStart, SyncHeal,
     WriteVault, FindSelf, MakeSelf, AddLogin, ReadFile, FinishBackup, UnpackArchive,
     RestoreFile, FinishRestore, ReadKeys, RunLoginFailed, RunLoggedIn, RunBootFailed,
     RunBooted, RunAdded, RunBackedUp, RunRestored, RunMerge, RunImportEnded,
     RunImportDone, Register, Wipe, NoteChange, history
<1>4. NoteChange => torn'
  <2>1. Kinds({"backup"}) # {}
    BY DEF Kinds
  <2>2. QED
    BY <2>1, Zenon DEF NoteChange
<1>5. Inner => torn' \/ UNCHANGED <<home, orphans>>
  BY <1>4 DEF Inner, Wipe, Register, WriteVault
<1>6. ~Reset /\ \A r \in tasks : ~SealKey(r) /\ ~RestoreFile(r) /\ ~FinishRestore(r)
  BY <1>1 DEF Reset, SealKey, RestoreFile, FinishRestore, Calm, Placed, Kinds
<1>7. torn' \/ UNCHANGED <<home, orphans>>
  BY <1>5, <1>6, FileSteps
<1>8. QED
  BY <1>3, <1>7

(* What a backup has read stays what it was.                               *)
LEMMA FileReady ==
  ASSUME CalmStep, screen = "ready"
  PROVE  file'.pw = file.pw /\ file # NoVault /\ file.nsec # None
<1> USE DEF CalmStep
<1>1. file # NoVault /\ file.nsec # None
  BY InsideFacts DEF Inside
<1>2. ~Reset /\ \A r \in tasks : ~SealKey(r) /\ ~RestoreFile(r) /\ ~FinishRestore(r)
  BY DEF Reset, SealKey, RestoreFile, FinishRestore, Calm, Placed, Kinds
<1>3. QED
  BY <1>1, <1>2, FileSteps, InnerFacts

(* Reading a file.                                                         *)
LEMMA ReadFacts ==
  ASSUME TypeOK, NEW t \in tasks, NEW f, ReadFile(t, f), NEW s \in tasks', s \notin tasks
  PROVE  /\ t.kind = "backup" /\ s.left = t.left \ {f} /\ s.got.pw = t.got.pw
         /\ s.got.vault = (IF f = "vault" THEN file ELSE t.got.vault)
         /\ s.got.home = (IF f = "vault" THEN t.got.home ELSE home)
<1>1. t.kind = "backup" /\ t.got \in [pw : Passwords, vault : Vault, home : SUBSET Accounts]
      /\ t = [kind |-> "backup", left |-> t.left, got |-> t.got]
  BY TaskFields DEF ReadFile, Kinds
<1> DEFINE got == IF f = "vault" THEN [t.got EXCEPT !.vault = file]
                                 ELSE [t.got EXCEPT !.home = home]
           left == t.left \ {f}
<1>2. s = [t EXCEPT !.left = left, !.got = got]
  BY DEF ReadFile, Become
<1>3. s.left = left /\ s.got = got
  <2>1. PICK l, g : t = [kind |-> "backup", left |-> l, got |-> g]
    BY <1>1
  <2> HIDE DEF left, got
  <2>2. QED
    BY <1>2, <2>1
<1>4. /\ got.pw = t.got.pw
      /\ got.vault = (IF f = "vault" THEN file ELSE t.got.vault)
      /\ got.home = (IF f = "vault" THEN t.got.home ELSE home)
  BY <1>1
<1> HIDE DEF got
<1>5. QED
  BY <1>1, <1>3, <1>4

(* A backup reads a vault that opens, and has the secrets of its home.     *)
LEMMA ReadingStep == CalmStep => Reading'
<1> SUFFICES ASSUME CalmStep, NEW t \in tasks', t.kind = "backup"
             PROVE  /\ t.got.pw = file'.pw
                    /\ "vault" \notin t.left =>
                         /\ Opens(t.got.vault, t.got.pw) /\ t.got.vault.nsec # None
                         /\ torn' \/ home' \ orphans' \subseteq t.got.vault.secrets
                    /\ "home" \notin t.left => torn' \/ t.got.home = home'
  BY DEF Reading, Kinds
<1> USE DEF CalmStep
<1>1. ASSUME NEW r \in tasks, r.kind = "backup"
      PROVE  /\ r.got.pw = file.pw
             /\ "vault" \notin r.left =>
                  /\ Opens(r.got.vault, r.got.pw) /\ r.got.vault.nsec # None
                  /\ torn \/ home \ orphans \subseteq r.got.vault.secrets
             /\ "home" \notin r.left => torn \/ r.got.home = home
             /\ screen = "ready"
  BY <1>1 DEF Calm, Reading, Placed, Kinds
<1>2. CASE t \in tasks
  <2>1. torn' \/ (~torn /\ UNCHANGED <<home, orphans>>)
    BY <1>2, TornSteps
  <2>2. file'.pw = file.pw
    BY <1>1, <1>2, FileReady
  <2>3. QED
    BY <1>1, <1>2, <2>1, <2>2
<1>3. ASSUME t \notin tasks, NEW r \in tasks, CheckPassword(r)
      PROVE  /\ t.got.pw = file'.pw /\ "vault" \in t.left /\ "home" \in t.left
  <2>1. t = [kind |-> "backup", left |-> {"vault", "home"},
             got |-> [Unread EXCEPT !.pw = r.pw]]
        /\ MayBackup(r.pw) /\ file' = file
    BY <1>3 DEF CheckPassword, Become, End, disk
  <2>2. t.got.pw = r.pw /\ t.left = {"vault", "home"}
    BY <2>1 DEF Unread
  <2>3. QED
    BY <2>1, <2>2 DEF MayBackup, Opens
<1>4. ASSUME t \notin tasks, NEW r \in tasks, NEW f \in {"vault", "home"}, ReadFile(r, f)
      PROVE  /\ t.got.pw = file'.pw
             /\ "vault" \notin t.left =>
                  /\ Opens(t.got.vault, t.got.pw) /\ t.got.vault.nsec # None
                  /\ torn' \/ home' \ orphans' \subseteq t.got.vault.secrets
             /\ "home" \notin t.left => torn' \/ t.got.home = home'
  <2>1. /\ r.kind = "backup" /\ t.left = r.left \ {f} /\ t.got.pw = r.got.pw
        /\ t.got.vault = (IF f = "vault" THEN file ELSE r.got.vault)
        /\ t.got.home = (IF f = "vault" THEN r.got.home ELSE home)
    BY <1>4, ReadFacts
  <2>2. UNCHANGED <<file, home, orphans, torn>>
    BY <1>4 DEF ReadFile, disk, history
  <2>3. screen = "ready" /\ file # NoVault /\ file.nsec # None
    BY <1>1, <2>1, FileReady
  <2>4. home \ orphans \subseteq file.secrets
    BY Zenon DEF Calm, AccountsHaveSecrets
  <2>5. torn' \/ ~torn
    <3>1. torn' = torn
      BY <2>2, Zenon
    <3>2. QED
      BY <3>1, Zenon
  <2>6. CASE f = "vault"
    BY <1>1, <2>1, <2>2, <2>3, <2>4, <2>5, <2>6 DEF Opens
  <2>7. CASE f = "home"
    BY <1>1, <2>1, <2>2, <2>5, <2>7
  <2>8. QED
    BY <2>6, <2>7
<1>5. t \notin tasks =>
        \E r \in tasks : CheckPassword(r) \/ ReadFile(r, "vault") \/ ReadFile(r, "home")
  BY TaskSources DEF Starts, Write, AddOf
<1>6. QED
  BY <1>2, <1>3, <1>4, <1>5

(* An archive is only replaced by one that opens.                          *)
LEMMA ArchivedStep == CalmStep => Archived'
<1> SUFFICES ASSUME CalmStep PROVE Archived'
  OBVIOUS
<1> USE DEF CalmStep
<1>1. CASE UNCHANGED <<archive, bare>>
  BY <1>1 DEF Calm, Archived
<1>2. ASSUME NEW t \in tasks, FinishBackup(t) PROVE Archived'
  <2>1. t.kind = "backup" /\ t.left = {} /\ archive' = t.got
    BY <1>2 DEF FinishBackup, Kinds
  <2>2. /\ Opens(t.got.vault, t.got.pw) /\ t.got.vault.nsec # None
        /\ torn \/ home \ orphans \subseteq t.got.vault.secrets
        /\ torn \/ t.got.home = home
    BY <2>1 DEF Calm, Reading, Kinds
  <2>3. t.got.home \subseteq Accounts
    BY <2>1, TaskFields
  <2>4. CASE torn
    <3>1. bare' = Accounts
      BY <1>2, <2>4, Zenon DEF FinishBackup
    <3>2. QED
      BY <2>1, <2>2, <2>3, <3>1 DEF Archived
  <2>5. CASE ~torn
    <3>1. bare' = orphans
      BY <1>2, <2>5, Zenon DEF FinishBackup
    <3>2. QED
      BY <2>1, <2>2, <2>5, <3>1 DEF Archived
  <2>6. QED
    BY <2>4, <2>5
<1>3. QED
  BY <1>1, <1>2, ArchiveWriters
-----------------------------------------------------------------------------
(* The accounts of the session.                                            *)

(* A failed re-login stays on record.                                      *)
LEMMA FailedStays == Next /\ failed => failed'
BY Zenon DEF Next, User, Worker, RunClosure, LoginWithNsec, Unlock, CreateBackup,
   SubmitImport, Switch, AddAccount, Reset, OpenImport, DismissImport, Exit, CreateVault,
   SealKey, OpenVault, BootPresent, BootStart, BootImport, SyncStart, SyncHeal,
   WriteVault, FindSelf, MakeSelf, AddLogin, CheckPassword, ReadFile, FinishBackup,
   UnpackArchive, RestoreFile, FinishRestore, ReadKeys, RunLoginFailed, RunLoggedIn,
   RunBootFailed, RunBooted, RunAdded, RunBackedUp, RunRestored, RunMerge,
   RunImportEnded, RunImportDone, history

(* The sync a boot leaves behind is the only one.                          *)
LEMMA NewSync ==
  ASSUME CalmStep, NEW s \in tasks', s \notin tasks, s.kind \in {"sync", "heal"}
  PROVE  /\ \A r \in tasks' : r.kind \in {"sync", "heal"} => r = s
         /\ \/ \E t \in tasks : t.kind = "sync" /\ s.acc = t.acc
            \/ \E t \in tasks : t.kind \in {"boot", "import"} /\ s.acc = t.acc
<1> USE DEF CalmStep
<1> DEFINE Goal == /\ \A r \in tasks' : r.kind \in {"sync", "heal"} => r = s
                   /\ \/ \E t \in tasks : t.kind = "sync" /\ s.acc = t.acc
                      \/ \E t \in tasks : t.kind \in {"boot", "import"} /\ s.acc = t.acc
<1>1. Starts(s)
  BY TaskSources
<1>2. ASSUME NEW t \in tasks, BootPresent(t) \/ BootImport(t), s.acc = t.acc PROVE Goal
  <2>1. t.kind \in {"boot", "import"}
    BY <1>2 DEF BootPresent, BootImport, Kinds
  <2>2. \A r \in tasks : r.kind \notin {"sync", "heal"}
    <3>1. screen = "booting" /\ ~Posted({"booted"})
      BY <2>1 DEF Calm, Placed, OneLogin, Kinds, Posted, LoginTasks, LoginClosures
    <3>2. QED
      BY <3>1 DEF Calm, Placed, Kinds
  <2>3. \E r : tasks' = (tasks \ {t}) \cup {r} \/ tasks' = tasks \ {t}
    BY <1>2 DEF BootPresent, BootImport, BootReady, Become, End
  <2>4. QED
    BY <1>2, <2>1, <2>2, <2>3
<1>3. ASSUME NEW t \in tasks, SyncStart(t), s.acc = t.acc PROVE Goal
  <2>1. t.kind = "sync"
    BY <1>3 DEF SyncStart, Kinds
  <2>2. \A r \in tasks \ {t} : r.kind \notin {"sync", "heal"}
    BY <2>1 DEF Calm, Primary, Kinds
  <2>3. \E r : tasks' = (tasks \ {t}) \cup {r} \/ tasks' = tasks \ {t}
    BY <1>3 DEF SyncStart, Become, End
  <2>4. QED
    BY <1>3, <2>1, <2>2, <2>3
<1>4. QED
  BY <1>1, <1>2, <1>3 DEF Starts, Write, AddOf

(* A self-heal that removes an account imports it again, or fails.         *)
LEMMA HealedStep ==
  ASSUME CalmStep, NEW acc \in Accounts, Healed(acc),
         screen = "ready" \/ Posted({"booted"}),
         \A t \in Kinds({"sync", "heal"}) : t.acc = acc
  PROVE  acc \in home' \/ Kinds({"heal"})' # {} \/ failed'
<1> USE DEF CalmStep
<1> DEFINE Goal == acc \in home' \/ Kinds({"heal"})' # {} \/ failed'
<1>1. screen = "ready" \/ screen = "booting"
  BY DEF Calm, Placed, Posted
<1>2. \A t \in tasks : t.kind \notin {"boot", "import"}
  BY DEF Calm, Placed, OneLogin, Kinds, Posted, LoginTasks, LoginClosures
<1>3. CASE failed
  BY <1>3, FailedStays, Zenon
<1>4. ASSUME NEW t \in tasks, t.kind = "heal" PROVE Goal
  <2>1. CASE t \in tasks'
    BY <1>4, <2>1, TaskNow
  <2>2. CASE t \notin tasks'
    <3>1. SyncHeal(t)
      BY <1>4, <2>2, TaskEnds
         DEF Runs, Kinds, CreateVault, SealKey, OpenVault, BootPresent, BootStart,
             BootImport, SyncStart, WriteVault, FindSelf, MakeSelf, AddLogin,
             CheckPassword, ReadFile, FinishBackup, UnpackArchive, RestoreFile,
             FinishRestore, ReadKeys
    <3>2. t.acc = acc
      BY <1>4 DEF Kinds
    <3>3. Register(t.acc, t.obj) \/ failed'
      BY <3>1, Zenon DEF SyncHeal, Reimported
    <3>4. QED
      BY <3>2, <3>3 DEF Register
  <2>3. QED
    BY <2>1, <2>2
<1>5. CASE acc \in home
  <2>1. CASE Inner
    <3>1. PICK t \in tasks :
            \/ BootStart(t) \/ SyncStart(t)
            \/ Register(t.acc, cell)
            \/ WriteVault(t)
      BY <2>1 DEF Inner
    <3>2. ~BootStart(t)
      BY <1>2 DEF BootStart, Kinds
    <3>3. CASE SyncStart(t)
      <4>1. \/ home' = home
            \/ [t EXCEPT !.kind = "heal"] \in tasks'
        BY <3>3 DEF SyncStart, Become
      <4>2. [t EXCEPT !.kind = "heal"].kind = "heal"
        <5>1. t = [kind |-> t.kind, acc |-> t.acc, obj |-> t.obj, start |-> t.start]
          BY <3>3, TaskFields DEF SyncStart, Kinds
        <5>2. PICK k, a, o, b : t = [kind |-> k, acc |-> a, obj |-> o, start |-> b]
          BY <5>1
        <5>3. QED
          BY <5>2
      <4>3. QED
        BY <1>5, <4>1, <4>2, TaskNow
    <3>4. CASE Register(t.acc, cell)
      BY <1>5, <3>4 DEF Register
    <3>5. CASE WriteVault(t)
      BY <1>5, <3>5 DEF WriteVault
    <3>6. QED
      BY <3>1, <3>2, <3>3, <3>4, <3>5
  <2>2. ~Reset /\ \A r \in tasks : ~SealKey(r) /\ ~RestoreFile(r) /\ ~FinishRestore(r)
    BY <1>1 DEF Reset, SealKey, RestoreFile, FinishRestore, Calm, Placed, Kinds
  <2>3. QED
    BY <1>5, <2>1, <2>2, FileSteps
<1>6. QED
  BY <1>3, <1>4, <1>5 DEF Healed, Kinds

(* The account the backend was booted with, and the active one.            *)
LEMMA PrimaryWriters ==
  ASSUME Next, ~RunBooted, ~Exit PROVE primary' = primary
<1>1. QED
  BY ShowWriters
     DEF Reset, OpenImport, DismissImport, Switch, AddLogin, RunLoggedIn, RunBootFailed,
         RunAdded, RunRestored, RunMerge, RunImportDone, session

(* The account shown changes by a switch, to another account on disk.      *)
LEMMA ActiveWriters ==
  ASSUME Next, ~RunBooted, ~Exit
  PROVE  \/ active' = active
         \/ \E a \in Accounts : Switch(a) /\ active' = a
         \/ RunAdded /\ active' = Head(uiq).acc /\ active' \in home \ {active}
BY ShowWriters
   DEF Reset, OpenImport, DismissImport, Switch, SwitchTo, AddLogin, RunLoggedIn,
       RunBootFailed, RunAdded, RunRestored, RunMerge, RunImportDone, session

(* The account of the backend stays on disk, or is about to be put back.   *)
LEMMA PrimaryStep == CalmStep => Primary'
<1> SUFFICES ASSUME CalmStep PROVE Primary'
  OBVIOUS
<1> USE DEF CalmStep
<1>1. \A s, t \in tasks : s.kind \in {"sync", "heal"} /\ t.kind \in {"sync", "heal"} => s = t
  BY DEF Calm, Primary, Kinds
<1>2. screen = "ready" =>
        /\ Healed(primary) /\ active \in Accounts
        /\ \A t \in Kinds({"sync", "heal"}) : t.acc = primary
  BY DEF Calm, Primary
<1>3. \A i \in DOMAIN uiq : uiq[i].kind = "booted" =>
        /\ Healed(uiq[i].acc)
        /\ file.active = None => uiq[i].active = uiq[i].acc
        /\ \A t \in Kinds({"sync", "heal"}) : t.acc = uiq[i].acc
        /\ screen = "booting" /\ uiq[i].acc \in Accounts /\ uiq[i].active \in Accounts
        /\ \A t \in tasks : t.kind \notin LoginTasks
  <2>1. \A i \in DOMAIN uiq : uiq[i].kind = "booted" =>
          uiq[i].acc \in Accounts /\ uiq[i].active \in Accounts
    BY DEF TypeOK, Works, Closure
  <2>2. QED
    BY <2>1 DEF Calm, Primary, Placed, OneLogin, Kinds, Posted, LoginClosures
<1>4. \A s, t \in Kinds({"sync", "heal"})' : s = t
  <2>1. ASSUME NEW s \in tasks', s \notin tasks, s.kind \in {"sync", "heal"}
        PROVE  \A r \in tasks' : r.kind \in {"sync", "heal"} => r = s
    BY <2>1, NewSync
  <2>2. QED
    BY <1>1, <2>1 DEF Kinds
<1>5. ASSUME NEW acc, \A t \in Kinds({"sync", "heal"}) : t.acc = acc,
             \A t \in tasks : t.kind \notin {"boot", "import"}
      PROVE  \A t \in Kinds({"sync", "heal"})' : t.acc = acc
  <2>1. ASSUME NEW s \in tasks', s \notin tasks, s.kind \in {"sync", "heal"}
        PROVE  s.acc = acc
    BY <1>5, <2>1, NewSync DEF Kinds
  <2>2. QED
    BY <1>5, <2>1 DEF Kinds
<1>6. ASSUME screen' = "ready"
      PROVE  /\ primary' \in home' \/ Kinds({"heal"})' # {} \/ failed'
             /\ active' \in Accounts
             /\ \A t \in Kinds({"sync", "heal"})' : t.acc = primary'
  <2>1. CASE RunBooted
    <3> DEFINE c == Head(uiq)
    <3>1. /\ uiq # <<>> /\ c.kind = "booted" /\ c = uiq[1] /\ 1 \in DOMAIN uiq
          /\ primary' = c.acc /\ active' = c.active
      BY <2>1, HeadFields DEF RunBooted
    <3>2. /\ Healed(c.acc) /\ c.acc \in Accounts /\ c.active \in Accounts
          /\ \A t \in Kinds({"sync", "heal"}) : t.acc = c.acc
          /\ \A t \in tasks : t.kind \notin {"boot", "import"}
          /\ Posted({"booted"})
      BY <1>3, <3>1 DEF Posted, LoginTasks
    <3> HIDE DEF c
    <3>3. c.acc \in home' \/ Kinds({"heal"})' # {} \/ failed'
      BY <3>2, HealedStep
    <3>4. QED
      BY <1>5, <3>1, <3>2, <3>3
  <2>2. CASE ~RunBooted
    <3>1. screen = "ready"
      BY <1>6, <2>2, ScreenSteps DEF Reset, RunBootFailed
    <3>2. primary' = primary
      BY <2>2, PrimaryWriters
    <3>3. active' \in Accounts
      <4>1. active \in Accounts /\ home \subseteq Accounts
        BY <1>2, <3>1 DEF TypeOK, Stored
      <4>2. QED
        BY <2>2, <4>1, ActiveWriters
    <3>4. primary \in Accounts \/ primary = None
      BY DEF TypeOK, Shows
    <3>5. \A t \in tasks : t.kind \notin {"boot", "import"}
      BY <3>1 DEF Calm, Placed, Kinds
    <3>6. \A t \in Kinds({"sync", "heal"})' : t.acc = primary
      BY <1>2, <1>5, <3>1, <3>5
    <3>7. CASE primary \in Accounts
      BY <1>2, <3>1, <3>2, <3>3, <3>6, <3>7, HealedStep
    <3>8. CASE primary = None
      <4>1. Kinds({"heal"}) = {} /\ primary \notin home
        <5>1. primary \notin Accounts
          BY <3>8
        <5>2. \A t \in tasks : t.kind = "heal" => t.acc \in Accounts
          BY TaskFields
        <5>3. QED
          BY <1>2, <3>1, <5>1, <5>2 DEF Kinds, TypeOK, Stored
      <4>2. failed
        BY <1>2, <3>1, <4>1 DEF Healed
      <4>3. failed'
        BY <4>2, FailedStays, Zenon
      <4>4. QED
        BY <3>2, <3>3, <3>6, <4>3
    <3>9. QED
      BY <3>4, <3>7, <3>8
  <2>3. QED
    BY <2>1, <2>2
<1>7. ASSUME NEW i \in DOMAIN uiq, uiq[i].kind = "booted"
      PROVE  /\ uiq[i].acc \in home' \/ Kinds({"heal"})' # {} \/ failed'
             /\ file'.active = None => uiq[i].active = uiq[i].acc
             /\ \A t \in Kinds({"sync", "heal"})' : t.acc = uiq[i].acc
  <2>1. /\ Healed(uiq[i].acc) /\ (file.active = None => uiq[i].active = uiq[i].acc)
        /\ \A t \in Kinds({"sync", "heal"}) : t.acc = uiq[i].acc
        /\ screen = "booting" /\ uiq[i].acc \in Accounts
        /\ \A t \in tasks : t.kind \notin LoginTasks
    BY <1>3, <1>7
  <2>2. Posted({"booted"})
    BY <1>7 DEF Posted
  <2>3. \A t \in tasks : t.kind \notin {"boot", "import"}
    BY <2>1 DEF LoginTasks
  <2>4. file'.active = file.active
    <3>1. ~raced /\ \A t \in tasks : ~WriteVault(t)
      BY <2>1 DEF WriteVault, Calm, Placed, Object, Kinds
    <3>2. ~Reset /\ \A t \in tasks : ~SealKey(t) /\ ~RestoreFile(t) /\ ~FinishRestore(t)
      BY <2>1 DEF Reset, SealKey, RestoreFile, FinishRestore, Kinds, LoginTasks
    <3>3. file # NoVault
      BY <2>1, NoVaultYet
    <3>4. QED
      BY <3>1, <3>2, <3>3, FileSteps, InnerFacts
  <2>5. QED
    BY <1>5, <2>1, <2>2, <2>3, <2>4, HealedStep
<1>8. ASSUME NEW t \in tasks, NEW c, Post(c), Posts(t, c), c.kind = "booted"
      PROVE  /\ c.acc \in home'
             /\ file'.active = None => c.active = c.acc
             /\ \A s \in Kinds({"sync", "heal"})' : s.acc = c.acc
  <2>1. /\ BootPresent(t) \/ BootImport(t)
        /\ c = [kind |-> "booted", acc |-> t.acc,
                active |-> Shown(t.hint, t.acc, home'), obj |-> t.obj]
    BY <1>8 DEF Posts
  <2>2. t.kind \in {"boot", "import"}
    BY <2>1 DEF BootPresent, BootImport, Kinds
  <2>3. t.acc \in home'
    <3>1. CASE BootPresent(t)
      BY <3>1 DEF BootPresent
    <3>2. CASE BootImport(t)
      <4>1. Register(t.acc, t.obj) \/ Post([kind |-> "bootFailed"])
        BY <3>2 DEF BootImport
      <4>2. ~Post([kind |-> "bootFailed"])
        BY <1>8, Posting
      <4>3. QED
        BY <4>1, <4>2 DEF Register
    <3>3. QED
      BY <2>1, <3>1, <3>2
  <2>4. ASSUME file'.active = None PROVE c.active = c.acc
    <3>1. t.hint = None
      BY <2>2, <2>4, BootActive DEF Calm, Login, Kinds
    <3>2. None \notin home'
      BY StoredTypes DEF Stored
    <3>3. QED
      BY <2>1, <3>1, <3>2 DEF Shown
  <2>5. \A s \in Kinds({"sync", "heal"})' : s.acc = c.acc
    <3>1. screen = "booting" /\ ~Posted({"booted"})
      BY <2>2 DEF Calm, Placed, OneLogin, Kinds, Posted, LoginTasks, LoginClosures
    <3>2. \A r \in tasks : r.kind \notin {"sync", "heal"}
      BY <3>1 DEF Calm, Placed, Kinds
    <3>3. ASSUME NEW s \in tasks', s.kind \in {"sync", "heal"} PROVE s.acc = t.acc
      <4>1. PICK r \in tasks : r.kind \in {"boot", "import"} /\ s.acc = r.acc
        BY <3>2, <3>3, NewSync
      <4>2. r = t
        BY <2>2, <4>1 DEF Calm, OneLogin, Kinds, LoginTasks
      <4>3. QED
        BY <4>1, <4>2
    <3>4. QED
      BY <2>1, <3>3 DEF Kinds
  <2>6. QED
    BY <2>1, <2>3, <2>4, <2>5
<1>9. ASSUME NEW i \in DOMAIN uiq', uiq'[i].kind = "booted"
      PROVE  /\ uiq'[i].acc \in home' \/ Kinds({"heal"})' # {} \/ failed'
             /\ file'.active = None => uiq'[i].active = uiq'[i].acc
             /\ \A t \in Kinds({"sync", "heal"})' : t.acc = uiq'[i].acc
  <2>1. CASE uiq' = uiq
    BY <1>7, <1>9, <2>1
  <2>2. CASE uiq # <<>> /\ uiq' = Tail(uiq)
    BY <1>7, <1>9, <2>2, Taking
  <2>3. ASSUME NEW t \in tasks, NEW c, Post(c), Posts(t, c)
        PROVE  /\ uiq'[i].acc \in home' \/ Kinds({"heal"})' # {} \/ failed'
               /\ file'.active = None => uiq'[i].active = uiq'[i].acc
               /\ \A r \in Kinds({"sync", "heal"})' : r.acc = uiq'[i].acc
    BY <1>7, <1>8, <1>9, <2>3, Posting
  <2>4. QED
    BY <2>1, <2>2, <2>3, ClosureSources
<1>10. QED
  BY <1>4, <1>6, <1>9 DEF Primary, Healed
-----------------------------------------------------------------------------
(* The chats an account has with itself.                                   *)

(* A switch next to a chat that is being made stays on record.             *)
LEMMA StrayedStays == Next /\ strayed => strayed'
BY Zenon DEF Next, User, Worker, RunClosure, LoginWithNsec, Unlock, CreateBackup,
   SubmitImport, Switch, AddAccount, Reset, OpenImport, DismissImport, Exit, CreateVault,
   SealKey, OpenVault, BootPresent, BootStart, BootImport, SyncStart, SyncHeal,
   WriteVault, FindSelf, MakeSelf, AddLogin, CheckPassword, ReadFile, FinishBackup,
   UnpackArchive, RestoreFile, FinishRestore, ReadKeys, RunLoginFailed, RunLoggedIn,
   RunBootFailed, RunBooted, RunAdded, RunBackedUp, RunRestored, RunMerge,
   RunImportEnded, RunImportDone, SwitchTo, history

(* The tasks that ensure a chat have nothing but their kind.               *)
LEMMA SelfTasks ==
  ASSUME TypeOK
  PROVE  \A t \in tasks : t.kind \in {"ensure", "makeSelf"} => t = [kind |-> t.kind]
BY DEF TypeOK, Works, Task

(* A change of the active account in a running session finds no chat that  *)
(* is being ensured, unless it goes on record.                             *)
LEMMA ActiveMoves ==
  ASSUME CalmStep, ~strayed', Kinds({"ensure", "makeSelf"}) # {}
  PROVE  active' = active
<1> USE DEF CalmStep
<1>1. screen = "ready"
  BY DEF Calm, Placed, Kinds
<1>2. ~RunBooted
  BY <1>1, HeadFields DEF RunBooted, Calm, Placed, Posted
<1>3. ASSUME NEW acc, NEW more, SwitchTo(acc, more) PROVE active' = active
  <2>1. \/ strayed' = (strayed \/ Kinds({"ensure", "makeSelf"}) # {})
        \/ UNCHANGED active
    BY <1>3, Zenon DEF SwitchTo
  <2>2. QED
    BY <2>1, Zenon
<1>4. ASSUME NEW a \in Accounts, Switch(a) PROVE active' = active
  BY <1>3, <1>4 DEF Switch
<1>5. CASE RunAdded
  BY <1>3, <1>5 DEF RunAdded
<1>6. QED
  BY <1>2, <1>4, <1>5, ActiveWriters

(* These count the chats.                                                  *)
LEMMA ChatWriters ==
  ASSUME CalmStep
  PROVE  \/ selfChats' = selfChats
         \/ selfChats' = [a \in Accounts |-> 0]
         \/ /\ \E t \in tasks : BootPresent(t) \/ BootImport(t)
            /\ \E a \in Accounts :
                 selfChats' = [selfChats EXCEPT ![a] = IF @ = 0 THEN 1 ELSE @]
         \/ \E t \in tasks :
              /\ t.kind = "makeSelf" /\ tasks' = tasks \ {t}
              /\ selfChats' = [selfChats EXCEPT ![active] = @ + 1]
<1> USE DEF CalmStep
<1>1. ASSUME NEW t \in tasks, BootPresent(t) \/ BootImport(t)
      PROVE  \/ selfChats' = selfChats
             \/ \E a \in Accounts :
                  selfChats' = [selfChats EXCEPT ![a] = IF @ = 0 THEN 1 ELSE @]
  <2>1. t.acc \in Accounts /\ t.hint \in Accounts \cup {None}
    BY <1>1, TaskFields DEF BootPresent, BootImport, Kinds
  <2>2. Shown(t.hint, t.acc, home') \in Accounts
    BY <2>1, StoredTypes DEF Stored, Shown
  <2>3. \/ selfChats' = selfChats
        \/ selfChats' = [selfChats EXCEPT ![Shown(t.hint, t.acc, home')] =
                           IF @ = 0 THEN 1 ELSE @]
    BY <1>1 DEF BootPresent, BootImport, BootReady
  <2>4. QED
    BY <2>2, <2>3
<1>2. ASSUME NEW t \in tasks, BootStart(t) \/ SyncStart(t)
      PROVE  selfChats' = selfChats \/ selfChats' = [a \in Accounts |-> 0]
  BY <1>2 DEF BootStart, SyncStart, Wipe
<1>3. ASSUME NEW t \in tasks, MakeSelf(t)
      PROVE  /\ t.kind = "makeSelf" /\ tasks' = tasks \ {t}
             /\ \/ selfChats' = selfChats
                \/ selfChats' = [selfChats EXCEPT ![active] = @ + 1]
  BY <1>3 DEF MakeSelf, End, Kinds
<1>4. ASSUME NEW t \in tasks,
             \/ CreateVault(t) \/ SealKey(t) \/ SyncHeal(t) \/ WriteVault(t)
             \/ AddLogin(t) \/ FinishBackup(t) \/ RestoreFile(t) \/ FinishRestore(t)
      PROVE  selfChats' = selfChats
  BY <1>4 DEF CreateVault, SealKey, SyncHeal, WriteVault, AddLogin, FinishBackup,
              RestoreFile, FinishRestore, disk
<1>5. Reset => selfChats' = selfChats
  BY DEF Reset
<1>6. QED
  BY <1>1, <1>2, <1>3, <1>4, <1>5, DiskWriters

(* A look-up finds no chat before one is made, and ends the only ensuring. *)
LEMMA NewMakeSelf ==
  ASSUME CalmStep, NEW s \in tasks', s \notin tasks, s.kind = "makeSelf"
  PROVE  /\ selfChats[active] = 0 /\ UNCHANGED <<selfChats, active>>
         /\ \A r \in tasks' : r.kind # "ensure"
<1> USE DEF CalmStep
<1>1. PICK t \in tasks : FindSelf(t)
  BY TaskSources DEF Starts, Write, AddOf
<1>2. t.kind = "ensure" /\ UNCHANGED <<selfChats, active>>
  BY <1>1 DEF FindSelf, Kinds, disk, session
<1>3. \/ tasks' = tasks \ {t}
      \/ selfChats[active] = 0 /\ tasks' = (tasks \ {t}) \cup {[kind |-> "makeSelf"]}
  <2>1. active \in Accounts
    BY <1>2 DEF Calm, Placed, Primary, Kinds
  <2>2. selfChats[active] \in Nat
    BY <2>1 DEF TypeOK, Stored
  <2>3. QED
    BY <1>1, <2>2 DEF FindSelf, End, Become
<1>4. \A r \in tasks : r.kind = "ensure" => r = t
  BY <1>2, SelfTasks
<1>5. QED
  BY <1>2, <1>3, <1>4

(* An ensuring starts with a switch.                                       *)
LEMMA NewEnsure ==
  ASSUME CalmStep, NEW s \in tasks', s \notin tasks, s.kind = "ensure"
  PROVE  \E acc, more : SwitchTo(acc, more) /\ acc \in home \ {active}
<1> USE DEF CalmStep
<1>1. ASSUME NEW a \in Accounts, Switch(a) PROVE SwitchTo(a, {}) /\ a \in home \ {active}
  BY <1>1 DEF Switch
<1>2. CASE RunAdded
  <2>1. \/ SwitchTo(Head(uiq).acc, {Write("backup", Head(uiq).acc)})
        \/ tasks' = tasks
    BY <1>2 DEF RunAdded
  <2>2. SwitchTo(Head(uiq).acc, {Write("backup", Head(uiq).acc)})
    BY <2>1
  <2>3. Head(uiq).acc \in home \ {active}
    BY <2>2 DEF SwitchTo, Start, Write
  <2>4. QED
    BY <2>2, <2>3
<1>3. (\E a \in Accounts : Switch(a)) \/ RunAdded
  BY TaskSources DEF Starts, Write, AddOf
<1>4. QED
  BY <1>1, <1>2, <1>3

(* An account gets one chat with itself.                                   *)
LEMMA SelfChatsStep == CalmStep => SelfChats'
<1> SUFFICES ASSUME CalmStep, ~strayed'
             PROVE  /\ \A a \in Accounts : selfChats'[a] <= 1
                    /\ Kinds({"makeSelf"})' # {} =>
                         selfChats'[active'] = 0 /\ Kinds({"ensure"})' = {}
  BY Zenon DEF SelfChats
<1> USE DEF CalmStep
<1>1. ~strayed
  BY StrayedStays, Zenon
<1>2. /\ \A a \in Accounts : selfChats[a] <= 1
      /\ Kinds({"makeSelf"}) # {} => selfChats[active] = 0 /\ Kinds({"ensure"}) = {}
  BY <1>1, Zenon DEF Calm, SelfChats
<1>3. selfChats \in [Accounts -> Nat]
  BY DEF TypeOK, Stored
<1>4. \A t \in tasks : t.kind \in {"ensure", "makeSelf"} =>
        screen = "ready" /\ active \in Accounts /\ active' = active
  <2>1. ASSUME NEW t \in tasks, t.kind \in {"ensure", "makeSelf"}
        PROVE  screen = "ready" /\ active \in Accounts /\ active' = active
    <3>1. screen = "ready"
      BY <2>1 DEF Calm, Placed, Kinds
    <3>2. active \in Accounts
      BY <3>1 DEF Calm, Primary
    <3>3. active' = active
      BY <2>1, ActiveMoves DEF Kinds
    <3>4. QED
      BY <3>1, <3>2, <3>3
  <2>2. QED
    BY <2>1
<1>5. \A a \in Accounts : selfChats'[a] <= 1
  <2>1. ASSUME NEW t \in tasks, t.kind = "makeSelf",
               selfChats' = [selfChats EXCEPT ![active] = @ + 1]
        PROVE  \A a \in Accounts : selfChats'[a] <= 1
    <3>1. selfChats[active] = 0 /\ active \in Accounts
      BY <1>2, <1>4, <2>1 DEF Kinds
    <3>2. QED
      BY <1>2, <1>3, <2>1, <3>1
  <2>2. QED
    BY <1>2, <1>3, <2>1, ChatWriters
<1>6. ASSUME Kinds({"makeSelf"})' # {}
      PROVE  selfChats'[active'] = 0 /\ Kinds({"ensure"})' = {}
  <2>1. PICK s \in tasks' : s.kind = "makeSelf"
    BY <1>6 DEF Kinds
  <2>2. CASE s \notin tasks
    BY <2>1, <2>2, NewMakeSelf DEF Kinds
  <2>3. CASE s \in tasks
    <3>1. /\ selfChats[active] = 0 /\ active' = active /\ screen = "ready"
          /\ active \in Accounts /\ \A r \in tasks : r.kind # "ensure"
      BY <1>2, <1>4, <2>1, <2>3 DEF Kinds
    <3>2. ASSUME NEW r \in tasks', r.kind = "ensure" PROVE FALSE
      <4>1. PICK acc, more : SwitchTo(acc, more) /\ acc \in home \ {active}
        BY <3>1, <3>2, NewEnsure
      <4>2. active' = acc
        BY <4>1 DEF SwitchTo
      <4>3. QED
        BY <3>1, <4>1, <4>2
    <3>3. selfChats'[active] = 0
      <4>1. ~\E t \in tasks : BootPresent(t) \/ BootImport(t)
        BY <3>1 DEF BootPresent, BootImport, Calm, Placed, Kinds
      <4>2. \A t \in tasks : t.kind = "makeSelf" => t = s
        BY <2>1, <2>3, SelfTasks
      <4>3. ~\E t \in tasks : t.kind = "makeSelf" /\ tasks' = tasks \ {t}
        BY <2>1, <4>2
      <4>4. QED
        BY <3>1, <4>1, <4>3, ChatWriters
    <3>4. QED
      BY <3>1, <3>2, <3>3 DEF Kinds
  <2>4. QED
    BY <2>2, <2>3
<1>7. QED
  BY <1>5, <1>6
-----------------------------------------------------------------------------
(* The record of the active account.                                       *)

(* What a write that was not overtaken leaves in the file.                 *)
LEMMA WriteFacts ==
  ASSUME CalmStep, ~raced', NEW t \in tasks, WriteVault(t)
  PROVE  file'.active = IF t.key = "active" THEN t.acc ELSE file.active
<1> USE DEF CalmStep
<1>1. ~raced
  BY RacedStays, Zenon
<1>2. t.obj = cell /\ screen \in Inside
  BY DEF WriteVault, Calm, Object, Placed, Kinds, Inside
<1>3. cell \in DOMAIN mem /\ mem[cell] \in Vault /\ mem[cell] = file
  BY <1>1, <1>2, InsideFacts
<1>4. t.acc \in Accounts /\ t.key \in {"backup", "active"}
  BY TaskFields DEF WriteVault, Kinds
<1>5. Persist(cell, With(mem[cell], t.key, t.acc))
  BY <1>2 DEF WriteVault
<1>6. mem'[cell] = With(mem[cell], t.key, t.acc)
  BY <1>3, <1>4, <1>5, PersistTypes, VaultOps
<1>7. file' = mem'[cell]
  <2>1. raced' = (raced \/ file' # mem'[t.obj])
    BY Zenon DEF WriteVault
  <2>2. QED
    BY <1>2, <2>1, Zenon
<1>8. CASE t.key = "active"
  BY <1>3, <1>4, <1>6, <1>7, <1>8, VaultFields DEF Record
<1>9. CASE t.key = "backup"
  BY <1>3, <1>4, <1>6, <1>7, <1>9, VaultFields DEF Record
<1>10. QED
  BY <1>4, <1>8, <1>9

(* Nothing else in a running session changes the record.                   *)
LEMMA ActiveKept ==
  ASSUME CalmStep, screen = "ready", ~raced, \A t \in tasks : ~WriteVault(t)
  PROVE  file'.active = file.active
<1> USE DEF CalmStep
<1>1. ~Reset /\ \A r \in tasks : ~SealKey(r) /\ ~RestoreFile(r) /\ ~FinishRestore(r)
  BY DEF Reset, SealKey, RestoreFile, FinishRestore, Calm, Placed, Kinds
<1>2. file # NoVault
  BY InsideFacts DEF Inside
<1>3. QED
  BY <1>1, <1>2, FileSteps, InnerFacts

(* A switch starts the write of its record, and is on record itself when   *)
(* the write of another account is under way.                              *)
LEMMA SwitchFacts ==
  ASSUME CalmStep, ~raced', NEW acc \in home \ {active}, NEW more, SwitchTo(acc, more)
  PROVE  /\ active' = acc
         /\ tasks' = tasks \cup (more \cup {Write("active", acc), [kind |-> "ensure"]})
         /\ \A t \in tasks : t.kind = "write" /\ t.key = "active" => t.acc = acc
<1>1. /\ active' = acc
      /\ tasks' = tasks \cup (more \cup {Write("active", acc), [kind |-> "ensure"]})
  BY DEF SwitchTo, Start
<1>2. raced' = (raced \/ \E t \in Kinds({"write"}) : t.key = "active" /\ t.acc # acc)
  BY Zenon DEF SwitchTo
<1>3. ~\E t \in Kinds({"write"}) : t.key = "active" /\ t.acc # acc
  BY <1>2, Zenon
<1>4. QED
  BY <1>1, <1>3 DEF Kinds

(* The switches of a step.                                                 *)
LEMMA SwitchSteps ==
  ASSUME CalmStep, screen = "ready"
  PROVE  \/ \E acc \in home \ {active} :
              \/ SwitchTo(acc, {})
              \/ SwitchTo(acc, {Write("backup", acc)})
         \/ /\ active' = active
            /\ \A s \in tasks' : s.kind = "write" /\ s.key = "active" => s \in tasks
<1> USE DEF CalmStep
<1>1. ASSUME NEW a \in Accounts, Switch(a)
      PROVE  SwitchTo(a, {}) /\ a \in home \ {active}
  BY <1>1 DEF Switch
<1>2. ASSUME RunAdded,
             \A acc \in home \ {active} : ~SwitchTo(acc, {Write("backup", acc)})
      PROVE  /\ active' = active
             /\ \A s \in tasks' : s.kind = "write" /\ s.key = "active" => s \in tasks
  <2>1. \/ SwitchTo(Head(uiq).acc, {Write("backup", Head(uiq).acc)})
        \/ active' = active /\ tasks' = tasks
    BY <1>2 DEF RunAdded
  <2>2. CASE SwitchTo(Head(uiq).acc, {Write("backup", Head(uiq).acc)})
    <3>1. Head(uiq).acc \notin home \ {active}
      BY <1>2, <2>2
    <3>2. active' = active /\ tasks' = tasks \cup {Write("backup", Head(uiq).acc)}
      BY <2>2, <3>1 DEF SwitchTo, Start
    <3>3. QED
      BY <3>2 DEF Write
  <2>3. QED
    BY <2>1, <2>2
<1>3. ~RunBooted
  BY HeadFields DEF RunBooted, Calm, Placed, Posted
<1>4. ASSUME \A a \in Accounts : ~Switch(a), ~RunAdded
      PROVE  /\ active' = active
             /\ \A s \in tasks' : s.kind = "write" /\ s.key = "active" => s \in tasks
  <2>1. active' = active
    BY <1>3, <1>4, ActiveWriters
  <2>2. ASSUME NEW s \in tasks', s.kind = "write", s.key = "active", s \notin tasks
        PROVE  FALSE
    BY <1>3, <1>4, <2>2, TaskSources DEF Starts, Write, AddOf
  <2>3. QED
    BY <2>1, <2>2
<1>5. QED
  BY <1>1, <1>2, <1>4

(* The record is of the account that is shown, or will be.                 *)
LEMMA RecordedStep == CalmStep => Recorded'
<1> DEFINE Owed(a, ts)   == \A t \in ts : t.kind = "write" /\ t.key = "active" => t.acc = a
           Nobody(ts)    == \A t \in ts : t.kind = "write" => t.key # "active"
           Good(r, a, p) == r \in {a, None} /\ (r = None => a = p)
<1> SUFFICES ASSUME CalmStep, screen' = "ready", ~raced'
             PROVE  /\ Owed(active', tasks')
                    /\ Nobody(tasks') => Good(file'.active, active', primary')
  BY DEF Recorded, Kinds
<1> USE DEF CalmStep
<1>1. ~raced
  BY RacedStays, Zenon
<1>2. CASE RunBooted
  <2> DEFINE c == Head(uiq)
  <2>1. /\ uiq # <<>> /\ c.kind = "booted" /\ c = uiq[1] /\ 1 \in DOMAIN uiq
        /\ primary' = c.acc /\ active' = c.active /\ file' = file
        /\ tasks' = tasks \cup {[kind |-> "write", obj |-> c.obj, key |-> "backup",
                                 acc |-> c.acc]}
    BY <1>2, HeadFields DEF RunBooted, Start, disk
  <2>2. raced' = (raced \/ file.active \notin {c.active, None})
    BY <1>2, Zenon DEF RunBooted
  <2>3. file.active \in {c.active, None}
    BY <2>2, Zenon
  <2>4. file.active = None => c.active = c.acc
    BY <2>1 DEF Calm, Primary
  <2>5. \A t \in tasks : t.kind # "write"
    BY <2>1 DEF Calm, Placed, Kinds, Posted
  <2> HIDE DEF c
  <2>6. QED
    BY <2>1, <2>3, <2>4, <2>5
<1>3. CASE ~RunBooted
  <2>1. screen = "ready"
    BY <1>3, ScreenSteps DEF Reset, RunBootFailed
  <2>2. primary' = primary
    BY <1>3, PrimaryWriters
  <2>3. Owed(active, tasks) /\ (Nobody(tasks) => Good(file.active, active, primary))
    BY <1>1, <2>1 DEF Calm, Recorded, Kinds
  <2>4. ASSUME NEW acc \in home \ {active}, NEW more, SwitchTo(acc, more),
               more \in {{}, {Write("backup", acc)}}
        PROVE  Owed(active', tasks') /\ ~Nobody(tasks')
    <3>1. /\ active' = acc
          /\ tasks' = tasks \cup (more \cup {Write("active", acc), [kind |-> "ensure"]})
          /\ \A t \in tasks : t.kind = "write" /\ t.key = "active" => t.acc = acc
      BY <2>4, SwitchFacts
    <3>2. Owed(active', tasks')
      BY <2>4, <3>1 DEF Write
    <3>3. Write("active", acc) \in tasks' /\ Write("active", acc).kind = "write"
          /\ Write("active", acc).key = "active"
      BY <3>1 DEF Write
    <3>4. QED
      BY <3>2, <3>3
  <2>5. ASSUME active' = active,
               \A s \in tasks' : s.kind = "write" /\ s.key = "active" => s \in tasks
        PROVE  /\ Owed(active', tasks')
               /\ Nobody(tasks') => Good(file'.active, active', primary')
    <3>1. Owed(active', tasks')
      BY <2>3, <2>5
    <3>2. ASSUME Nobody(tasks') PROVE Good(file'.active, active, primary)
      <4>1. ASSUME NEW t \in tasks, t.kind = "write", t.key = "active"
            PROVE  file'.active = active
        <5>1. t \notin tasks'
          BY <3>2, <4>1
        <5>2. Runs(t)
          BY <5>1, TaskEnds
        <5>3. WriteVault(t)
          BY <4>1, <5>2
             DEF Runs, Kinds, CreateVault, SealKey, OpenVault, BootPresent, BootStart,
                 BootImport, SyncStart, SyncHeal, FindSelf, MakeSelf, AddLogin,
                 CheckPassword, ReadFile, FinishBackup, UnpackArchive, RestoreFile,
                 FinishRestore, ReadKeys
        <5>4. QED
          BY <2>3, <4>1, <5>3, WriteFacts
      <4>2. CASE Nobody(tasks)
        <5>1. Good(file.active, active, primary)
          BY <2>3, <4>2
        <5>2. file'.active = file.active
          <6>1. ASSUME NEW t \in tasks, WriteVault(t) PROVE t.key # "active"
            BY <4>2, <6>1 DEF WriteVault, Kinds
          <6>2. QED
            BY <1>1, <2>1, <6>1, WriteFacts, ActiveKept
        <5>3. QED
          BY <5>1, <5>2
      <4>3. CASE ~Nobody(tasks)
        <5>1. file'.active = active
          BY <4>1, <4>3
        <5>2. active \in Accounts
          BY <2>1 DEF Calm, Primary
        <5>3. active # None
          BY <5>2
        <5>4. QED
          BY <5>1, <5>3
      <4>4. QED
        BY <4>2, <4>3
    <3>3. QED
      BY <2>2, <2>5, <3>1, <3>2
  <2>6. QED
    BY <2>1, <2>4, <2>5, SwitchSteps
<1>4. QED
  BY <1>2, <1>3
-----------------------------------------------------------------------------
(* The first start, a restart, and the theorems.                           *)

(* Every state a process can start in is calm.                             *)
LEMMA InitCalm == Init => OneBackup /\ Calm
<1> SUFFICES ASSUME Init PROVE OneBackup /\ Calm
  OBVIOUS
<1>1. /\ tasks = {} /\ uiq = <<>> /\ screen \in {"choose", "unlock"} /\ modal = "closed"
      /\ ~busy /\ ~raced /\ selfChats = [a \in Accounts |-> 0] /\ bare = {}
  BY Zenon DEF Init
<1>2. /\ file = NoVault => screen = "choose"
      /\ home \subseteq file.secrets /\ (file = NoVault \/ file.nsec # None)
      /\ archive # NoArchive =>
           /\ Opens(archive.vault, archive.pw) /\ archive.vault.nsec # None
           /\ archive.home \subseteq archive.vault.secrets
  <2>1. PICK pw \in Passwords, a \in Accounts :
       \/ /\ file = NoVault /\ home = {} /\ screen = "choose"
          /\ archive = [pw |-> pw, vault |-> Installed(pw, Accounts, a),
                        home |-> Accounts]
       \/ /\ file = Installed(pw, Accounts, a) /\ home = Accounts
          /\ screen = "unlock" /\ archive = NoArchive
       \/ /\ file = Installed(pw, {a}, a) /\ home = {a}
          /\ screen = "unlock" /\ archive = NoArchive
    BY DEF Init
  <2>2. \A accs : /\ Installed(pw, accs, a) # NoVault /\ Installed(pw, accs, a).pw = pw
                  /\ Installed(pw, accs, a).nsec # None
                  /\ Installed(pw, accs, a).secrets = accs
    BY DEF Installed, NoVault, Empty
  <2>3. QED
    BY <2>1, <2>2 DEF Opens
<1>3. OneBackup /\ OneLogin /\ Placed /\ Restores /\ Login /\ Reading
  BY <1>1 DEF OneBackup, OneLogin, Placed, Restores, Login, Reading, Kinds, Posted
<1>4. Creating /\ Unlocking
  BY <1>1, <1>2 DEF Creating, Unlocking, Kinds, Posted
<1>5. Object /\ Primary /\ Recorded
  BY <1>1 DEF Object, Primary, Recorded, Kinds, Inside
<1>6. Archived
  BY <1>1, <1>2 DEF Archived
<1>7. SelfChats
  <2>1. /\ \A a \in Accounts : selfChats[a] <= 1
        /\ Kinds({"makeSelf"}) # {} =>
             selfChats[active] = 0 /\ Kinds({"ensure"}) = {}
    BY <1>1 DEF Kinds
  <2>2. QED
    BY <2>1, Zenon DEF SelfChats
<1>8. AccountsHaveSecrets
  <2>1. home \ orphans \subseteq file.secrets
    BY <1>2
  <2>2. QED
    BY <2>1, Zenon DEF AccountsHaveSecrets
<1>9. VaultHasKey
  BY <1>2 DEF VaultHasKey, Exists
<1>10. QED
  BY <1>3, <1>4, <1>5, <1>6, <1>7, <1>8, <1>9 DEF Calm

(* A process that ends, however, leaves the disk to the next one.          *)
LEMMA ExitCalm ==
  ASSUME TypeOK, Calm, ~behind, Exit PROVE Calm'
<1>1. /\ tasks' = {} /\ uiq' = <<>> /\ modal' = "closed"
      /\ screen' = IF Exists THEN "unlock" ELSE "choose"
      /\ UNCHANGED <<file, home, selfChats, archive, bare, orphans>>
  BY DEF Exit, disk, saved
<1>2. ~busy' /\ ~raced' /\ UNCHANGED <<behind, strayed>>
  BY Zenon DEF Exit
<1>3. OneLogin' /\ Placed' /\ Restores' /\ Login' /\ Reading'
  BY <1>1 DEF OneLogin, Placed, Restores, Login, Reading, Kinds, Posted
<1>4. Creating' /\ Unlocking'
  BY <1>1 DEF Creating, Unlocking, Kinds, Posted, Exists
<1>5. Object' /\ Primary' /\ Recorded'
  BY <1>1, <1>2 DEF Object, Primary, Recorded, Kinds, Inside
<1>6. Archived'
  BY <1>1 DEF Calm, Archived, NoArchive, Opens, NoVault, Empty
<1>7. SelfChats'
  <2>1. Kinds({"makeSelf"})' = {}
    BY <1>1 DEF Kinds
  <2>2. strayed \/ \A a \in Accounts : selfChats[a] <= 1
    BY Zenon DEF Calm, SelfChats
  <2>3. strayed' \/ \A a \in Accounts : selfChats'[a] <= 1
    <3>1. selfChats' = selfChats
      BY <1>1
    <3>2. CASE strayed
      BY <1>2, <3>2, Zenon
    <3>3. CASE \A a \in Accounts : selfChats[a] <= 1
      BY <3>1, <3>3
    <3>4. QED
      BY <2>2, <3>2, <3>3, Zenon
  <2>4. QED
    BY <2>1, <2>3, Zenon DEF SelfChats
<1>8. AccountsHaveSecrets'
  <2>1. home \ orphans \subseteq file.secrets
    BY Zenon DEF Calm, AccountsHaveSecrets
  <2>2. home' \ orphans' \subseteq file'.secrets
    BY <1>1, <2>1
  <2>3. QED
    BY <2>2, Zenon DEF AccountsHaveSecrets
<1>9. VaultHasKey'
  <2>1. cut' = (cut \/ Kinds({"seal", "restore"}) # {}) /\ file' = file
    BY <1>1, Zenon DEF Exit
  <2>2. Exists' = Exists
    BY <2>1 DEF Exists, NoVault, Empty
  <2>3. Kinds({"seal"}) # {} => Kinds({"seal", "restore"}) # {}
    BY DEF Kinds
  <2>4. Exists /\ file.nsec = None => cut \/ Kinds({"seal"}) # {}
    BY Zenon DEF Calm, VaultHasKey
  <2>5. Exists' /\ file'.nsec = None => cut'
    <3>1. Exists' /\ file'.nsec = None => Exists /\ file.nsec = None
      BY <2>1, <2>2
    <3>2. QED
      BY <2>1, <2>3, <2>4, <3>1, Zenon
  <2>6. QED
    BY <2>5, Zenon DEF VaultHasKey
<1>10. QED
  BY <1>3, <1>4, <1>5, <1>6, <1>7, <1>8, <1>9 DEF Calm

(* What ran next to a login stays on record.                               *)
LEMMA BehindStays == Next /\ behind => behind'
BY Zenon DEF Next, User, Worker, RunClosure, LoginWithNsec, Unlock, CreateBackup,
   SubmitImport, Switch, AddAccount, Reset, OpenImport, DismissImport, Exit, CreateVault,
   SealKey, OpenVault, BootPresent, BootStart, BootImport, SyncStart, SyncHeal,
   WriteVault, FindSelf, MakeSelf, AddLogin, CheckPassword, ReadFile, FinishBackup,
   UnpackArchive, RestoreFile, FinishRestore, ReadKeys, RunLoginFailed, RunLoggedIn,
   RunBootFailed, RunBooted, RunAdded, RunBackedUp, RunRestored, RunMerge,
   RunImportEnded, RunImportDone, SwitchTo, history

(* A calm step keeps all of it.                                            *)
LEMMA CalmKept == CalmStep => Calm'
<1> SUFFICES ASSUME CalmStep PROVE Calm'
  OBVIOUS
<1>1. AccountsHaveSecrets'
  <2>1. home' \ orphans' \subseteq file'.secrets
    BY SecretsStep
  <2>2. QED
    BY <2>1, Zenon DEF AccountsHaveSecrets
<1>2. QED
  BY <1>1, OneLoginStep, PlacedStep, CreatingStep, UnlockingStep, RestoresStep, LoginStep,
     ObjectStep, ArchivedStep, ReadingStep, PrimaryStep, SelfChatsStep, RecordedStep,
     VaultHasKeyStep DEF Calm

(* The invariant is inductive.                                             *)
LEMMA Inductive ==
  /\ Init => AccountsInv
  /\ AccountsInv /\ [Next]_vars => AccountsInv'
<1>1. Init => SpinnersEnd
  BY Zenon DEF Init, SpinnersEnd
<1>2. ASSUME AccountsInv, [Next]_vars PROVE (TypeOK /\ Refers /\ Tallied /\ SpinnersEnd)'
  BY <1>2, TypesStep, SpinnersStep DEF AccountsInv
<1>3. ASSUME AccountsInv, Next PROVE OneBackup' /\ (~behind' => Calm')
  <2>1. OneBackup'
    BY <1>3, OneBackupStep DEF AccountsInv
  <2>2. ASSUME ~behind' PROVE Calm'
    <3>1. ~behind
      BY <1>3, <2>2, BehindStays, Zenon
    <3>2. TypeOK /\ Refers /\ OneBackup /\ Calm
      BY <1>3, <3>1, Zenon DEF AccountsInv
    <3>3. CASE Exit
      BY <3>1, <3>2, <3>3, ExitCalm
    <3>4. CASE ~Exit
      BY <1>3, <2>2, <3>1, <3>2, <3>4, CalmKept, Zenon DEF CalmStep
    <3>5. QED
      BY <3>3, <3>4
  <2>3. QED
    BY <2>1, <2>2
<1>4. ASSUME AccountsInv, UNCHANGED vars PROVE OneBackup' /\ (~behind' => Calm')
  <2>1. OneBackup /\ (~behind => Calm)
    BY <1>4, Zenon DEF AccountsInv
  <2>2. OneBackup' = OneBackup
    BY <1>4 DEF vars, OneBackup, Kinds, Posted
  <2>3. Calm' = Calm
    <3>1. /\ OneLogin' = OneLogin /\ Placed' = Placed /\ Creating' = Creating
          /\ Unlocking' = Unlocking /\ Restores' = Restores /\ Login' = Login
          /\ Object' = Object /\ Archived' = Archived /\ Reading' = Reading
          /\ Primary' = Primary /\ Recorded' = Recorded
      BY <1>4 DEF vars, OneLogin, Placed, Creating, Unlocking, Restores, Login, Object,
                  Archived, Reading, Primary, Recorded, Healed, Kinds, Posted
    <3>2. SelfChats' = SelfChats /\ AccountsHaveSecrets' = AccountsHaveSecrets
          /\ VaultHasKey' = VaultHasKey
      BY <1>4, Zenon DEF vars, SelfChats, AccountsHaveSecrets, VaultHasKey, Exists, Kinds
    <3>3. QED
      BY <3>1, <3>2, Zenon DEF Calm
  <2>4. behind' = behind
    BY <1>4, Zenon DEF vars
  <2>5. QED
    BY <2>1, <2>2, <2>3, <2>4, Zenon
<1>5. QED
  BY <1>1, <1>2, <1>3, <1>4, InitTypes, InitCalm, Zenon DEF AccountsInv

(* It holds in every state.                                                *)
LEMMA Invariant == Spec => []AccountsInv
BY Inductive, PTL DEF Spec

(* However logins, boots, self-heals, added accounts, restores and crashes *)
(* interleave: the secret of an account marmot has is in the vault file.   *)
THEOREM SecretsSealed == Spec => []AccountsHaveSecrets
<1>1. AccountsInv => AccountsHaveSecrets
  BY Zenon DEF AccountsInv, Calm, AccountsHaveSecrets
<1>2. QED
  BY <1>1, Invariant, PTL

(* A vault without its nsec is that of a login under way, or cut short.    *)
THEOREM KeySealed == Spec => []VaultHasKey
<1>1. AccountsInv => VaultHasKey
  BY Zenon DEF AccountsInv, Calm, VaultHasKey
<1>2. QED
  BY <1>1, Invariant, PTL

(* Once its write is done, the recorded account is the one that is shown,  *)
(* unless a second switch or a write error got in between.                 *)
THEOREM SwitchIsRemembered == Spec => []SwitchRemembered
<1>1. AccountsInv => SwitchRemembered
  <2>1. ASSUME AccountsInv, screen = "ready", ~raced, ~behind,
               \A t \in Kinds({"write"}) : t.key # "active"
        PROVE  file.active \in {active, None} /\ (file.active = None => active = primary)
    <3>1. Recorded
      BY <2>1, Zenon DEF AccountsInv, Calm
    <3>2. QED
      BY <2>1, <3>1, Zenon DEF Recorded
  <2>2. QED
    BY <2>1, Zenon DEF SwitchRemembered
<1>2. QED
  BY <1>1, Invariant, PTL

(* The archive a backup left opens with its password and holds the secrets *)
(* of its accounts, but for those that changed while it was read.          *)
THEOREM BackupsOpen == Spec => []BackupOpens
<1>1. AccountsInv => BackupOpens
  BY Zenon DEF AccountsInv, Calm, Archived, BackupOpens
<1>2. QED
  BY <1>1, Invariant, PTL

(* The account of the backend is on disk, or about to be imported again.   *)
THEOREM PrimaryIsHome == Spec => []PrimaryInHome
<1>1. AccountsInv => PrimaryInHome
  BY Zenon DEF AccountsInv, Calm, Primary, Healed, PrimaryInHome
<1>2. QED
  BY <1>1, Invariant, PTL

(* Boots, self-heals and switches make one chat with itself per account.   *)
THEOREM OneChatEach == Spec => []OneSelfChat
<1>1. AccountsInv => OneSelfChat
  BY Zenon DEF AccountsInv, Calm, SelfChats, OneSelfChat
<1>2. QED
  BY <1>1, Invariant, PTL

(* No step but a reset takes a sealed key out of the file.                 *)
THEOREM KeysAreKept == Spec => KeysSurvive
<1>1. ASSUME AccountsInv, [Next]_vars
      PROVE  [(screen = "unlock" /\ screen' = "choose") \/ behind'
                \/ Keys \subseteq Keys']_vars
  <2>1. CASE UNCHANGED vars
    BY <2>1
  <2>2. CASE Next
    <3>1. CASE behind'
      BY <3>1, Zenon
    <3>2. CASE Reset
      BY <3>2 DEF Reset
    <3>3. CASE Exit
      BY <3>3 DEF Exit, disk, Keys
    <3>4. CASE ~behind' /\ ~Reset /\ ~Exit
      <4>1. ~behind
        BY <2>2, <3>4, BehindStays, Zenon
      <4>2. CalmStep
        BY <1>1, <2>2, <3>4, <4>1, Zenon DEF AccountsInv, CalmStep
      <4>3. QED
        BY <3>4, <4>2, KeysStep
    <3>5. QED
      BY <3>1, <3>2, <3>3, <3>4
  <2>3. QED
    BY <1>1, <2>1, <2>2
<1>2. QED
  BY <1>1, Invariant, PTL DEF Spec, KeysSurvive

(* No restore replaces the identity of an install.                         *)
THEOREM RestoresKeepIdentity == Spec => RestoreKeepsIdentity
<1>1. ASSUME AccountsInv, [Next]_vars
      PROVE  [file.nsec \in {None, file'.nsec} \/ screen = "unlock" \/ behind']_vars
  <2>1. CASE UNCHANGED vars
    BY <2>1
  <2>2. CASE Next
    <3>1. CASE behind'
      BY <3>1, Zenon
    <3>2. CASE Reset
      BY <3>2 DEF Reset
    <3>3. CASE Exit
      BY <3>3 DEF Exit, disk
    <3>4. CASE ~behind' /\ ~Reset /\ ~Exit
      <4>1. ~behind
        BY <2>2, <3>4, BehindStays, Zenon
      <4>2. CalmStep
        BY <1>1, <2>2, <3>4, <4>1, Zenon DEF AccountsInv, CalmStep
      <4>3. QED
        BY <3>4, <4>2, KeysStep
    <3>5. QED
      BY <3>1, <3>2, <3>3, <3>4
  <2>3. QED
    BY <1>1, <2>1, <2>2
<1>2. QED
  BY <1>1, Invariant, PTL DEF Spec, RestoreKeepsIdentity
==============================================================================
