------------------------------- MODULE Accounts -------------------------------
(***************************************************************************)
(* The identities of an install: the password-encrypted vault, the         *)
(* accounts marmot has on disk, the boot of the backend, switching and     *)
(* adding accounts, and whole-folder backups.                              *)
(*                                                                         *)
(* An unlocked vault is an object in memory; every change of it re-seals   *)
(* the whole map into one file.  Changes come from worker threads in any   *)
(* order, from marmot's secret store, and from nobody when the process     *)
(* dies in between.  A restore writes the same file behind its back.       *)
(***************************************************************************)
EXTENDS Integers, Sequences, FiniteSets

CONSTANTS
  Accounts,     \* the nsecs the user has
  Passwords,    \* what the user types
  None,         \* no account, no password
  Limit,        \* bound: how often each operation below happens
  MaxOps        \* bound: how many different ones of Rare happen

Limited == {"login", "unlock", "switch", "add", "import", "submit", "backup",
            "reset", "dismiss", "exit", "diskError", "startFails", "netFails",
            "lists"}
Rare    == Limited \ {"login", "unlock", "submit"}

ASSUME AccountsConstantsOK ==
  /\ None \notin Accounts \cup Passwords /\ IsFiniteSet(Accounts)
  /\ Limit \in [Limited -> Nat] /\ MaxOps \in Nat

VARIABLES
  file,      \* vault.db
  home,      \* the accounts in marmot's databases
  selfChats, \* how many "Saved Messages" chats each account has there
  archive,   \* the .dmbackup file
  bare,      \* history: accounts the archive may hold without their secret
  mem,       \* the vault objects opened by this process
  cell,      \* vault_cell: which of them the session uses, 0 for none
  screen,    \* login_mode, logged_in, booting and backend_ready
  busy,      \* login_busy
  modal,     \* the import modal: closed, or the mode it shows
  importing, \* import_backup_busy
  backing,   \* create_backup_busy
  active,    \* Backend.active
  primary,   \* the account of the nsec the backend was booted with
  tallies,   \* merge_imported_accounts: the tallies of each merge
  tasks,     \* worker threads and tokio tasks
  uiq,       \* closures posted with invoke_from_event_loop
  used,      \* how often each limited operation has happened
  cut,       \* history: the process died or the disk failed inside a login
  raced,     \* history: the record of the active account may be another's
  failed,    \* history: a re-login after a self-heal failed
  orphans,   \* history: accounts that lost the vault their secret was in
  strayed,   \* history: a switch while a self-chat was being ensured
  torn,      \* history: accounts changed while a backup read the files
  behind     \* history: a restore or a reset ran next to a login

saved   == <<archive, bare>>
disk    == <<file, home, selfChats, saved>>
dialogs == <<busy, modal, importing, backing>>
session == <<cell, screen, active, primary, tallies>>
history == <<cut, raced, failed, orphans, strayed, torn, behind>>
vars == <<file, home, selfChats, archive, bare, mem, cell, screen, busy, modal,
          importing, backing, active, primary, tallies, tasks, uiq, used, cut,
          raced, failed, orphans, strayed, torn, behind>>

(* The decrypted map: "nsec", "active_account", nsec:<hex> and             *)
(* account:<label>; pw stands for the key it is sealed with.               *)
Vault == [pw : Passwords \cup {None}, nsec : Accounts \cup {None},
          active : Accounts \cup {None}, backups : SUBSET Accounts,
          secrets : SUBSET Accounts]
Empty(pw) == [pw |-> pw, nsec |-> None, active |-> None, backups |-> {},
              secrets |-> {}]
NoVault  == Empty(None)
Exists   == file # NoVault

(* nsecs_from_map.                                                         *)
Nsecs(v) == (({v.nsec} \ {None}) \cup v.backups) \cup v.secrets

NoArchive == [pw |-> None, vault |-> NoVault, home |-> {}]

(* A fresh install with a backup of another one, or an install with two    *)
(* accounts.                                                               *)
Installed(pw, accs, acc) ==
  [pw |-> pw, nsec |-> acc, active |-> None, backups |-> accs,
   secrets |-> accs]

Init ==
  /\ \E pw \in Passwords, a \in Accounts :
       \/ /\ file = NoVault /\ home = {} /\ screen = "choose"
          /\ archive = [pw |-> pw, vault |-> Installed(pw, Accounts, a),
                        home |-> Accounts]
       \/ /\ file = Installed(pw, Accounts, a) /\ home = Accounts
          /\ screen = "unlock" /\ archive = NoArchive
       \/ /\ file = Installed(pw, {a}, a) /\ home = {a}
          /\ screen = "unlock" /\ archive = NoArchive
  /\ selfChats = [a \in Accounts |-> 0] /\ bare = {}
  /\ mem = <<>> /\ cell = 0 /\ busy = FALSE /\ modal = "closed"
  /\ importing = FALSE /\ backing = FALSE /\ active = None /\ primary = None
  /\ tallies = <<>> /\ tasks = {} /\ uiq = <<>> /\ used = [o \in Limited |-> 0]
  /\ cut = FALSE /\ raced = FALSE /\ failed = FALSE /\ orphans = {}
  /\ strayed = FALSE /\ torn = FALSE /\ behind = FALSE
-----------------------------------------------------------------------------
(* The pieces the operations share.                                        *)

Spend(o) == /\ used[o] < Limit[o]
            /\ o \in Rare =>
                 Cardinality({p \in Rare \ {o} : used[p] > 0}) < MaxOps
            /\ used' = [used EXCEPT ![o] = @ + 1]
Free == UNCHANGED used

Start(new)     == tasks' = tasks \cup new
Become(t, new) == tasks' = (tasks \ {t}) \cup new
End(t)         == tasks' = tasks \ {t}
Post(c)        == uiq' = Append(uiq, c)

(* Vault::persist writes a sibling and renames it: the file is the old map *)
(* or the new one, the object in memory has the change either way.         *)
Persist(obj, v) ==
  /\ mem' = [mem EXCEPT ![obj] = v]
  /\ \/ file' = v /\ Free
     \/ Spend("diskError") /\ UNCHANGED file

Sealed(obj, v) == /\ mem' = [mem EXCEPT ![obj] = v] /\ file' = v

(* Vault::set (and a mutant: a later backup of a key replaces the first).  *)
WithOnly(v, key, acc) ==
  CASE key = "nsec"   -> [v EXCEPT !.nsec = acc]
    [] key = "active" -> [v EXCEPT !.active = acc]
    [] key = "backup" -> [v EXCEPT !.backups = {acc}]
    [] key = "secret" -> [v EXCEPT !.secrets = @ \cup {acc}]
With(v, key, acc) ==
  CASE key = "nsec"   -> [v EXCEPT !.nsec = acc]
    [] key = "active" -> [v EXCEPT !.active = acc]
    [] key = "backup" -> [v EXCEPT !.backups = @ \cup {acc}]
    [] key = "secret" -> [v EXCEPT !.secrets = @ \cup {acc}]

(* vault_set_async.                                                        *)
Write(key, acc) == [kind |-> "write", obj |-> cell, key |-> key, acc |-> acc]

Kinds(ks) == {t \in tasks : t.kind \in ks}

(* Accounts changed: a backup that is reading may see half of it.          *)
NoteChange == torn' = (torn \/ Kinds({"backup"}) # {})
-----------------------------------------------------------------------------
(* The login screen.                                                       *)

(* on_login_with_nsec and on_confirm_saved_key.                            *)
LoginWithNsec(acc, pw) ==
  /\ screen = "choose" /\ modal = "closed" /\ ~busy /\ Spend("login")
  /\ busy' = TRUE
  /\ Start({[kind |-> "create", acc |-> acc, pw |-> pw]})
  /\ UNCHANGED <<disk, mem, session, modal, importing, backing, uiq, history>>

(* Vault::create refuses to replace a vault (and a mutant: does not).      *)
MayAlways == TRUE
MayCreate == ~Exists

CreateVault(t) ==
  /\ t \in Kinds({"create"})
  /\ \/ /\ MayCreate /\ Free
        /\ file' = Empty(t.pw) /\ mem' = Append(mem, Empty(t.pw))
        /\ Become(t, {[kind |-> "seal", acc |-> t.acc, obj |-> Len(mem) + 1]})
        /\ UNCHANGED uiq
     \/ /\ \/ ~MayCreate /\ Free
           \/ MayCreate /\ Spend("diskError")
        /\ End(t) /\ Post([kind |-> "loginFailed"])
        /\ UNCHANGED <<file, mem>>
  /\ UNCHANGED <<home, selfChats, saved, session, dialogs, history>>

(* v.set(NSEC_KEY): a failure leaves the empty vault behind.               *)
SealKey(t) ==
  /\ t \in Kinds({"seal"})
  /\ Persist(t.obj, With(mem[t.obj], "nsec", t.acc))
  /\ End(t)
  /\ IF file'.nsec = t.acc
     THEN Post([kind |-> "loggedIn", acc |-> t.acc, obj |-> t.obj,
                hint |-> None])
     ELSE Post([kind |-> "loginFailed"])
  /\ cut' = (cut \/ file'.nsec # t.acc)
  /\ UNCHANGED <<home, selfChats, saved, session, dialogs, raced, failed,
                 orphans, strayed, torn, behind>>

(* on_unlock.                                                              *)
Unlock(pw) ==
  /\ screen = "unlock" /\ modal = "closed" /\ ~busy /\ Spend("unlock")
  /\ busy' = TRUE
  /\ Start({[kind |-> "open", pw |-> pw]})
  /\ UNCHANGED <<disk, mem, session, modal, importing, backing, uiq, history>>

(* Vault::open, and what on_unlock needs from the map.                     *)
Opens(v, pw) == v # NoVault /\ v.pw = pw

OpenVault(t) ==
  /\ t \in Kinds({"open"}) /\ End(t)
  /\ \/ /\ Opens(file, t.pw) /\ file.nsec # None
        /\ mem' = Append(mem, file)
        /\ Post([kind |-> "loggedIn", acc |-> file.nsec,
                 obj |-> Len(mem) + 1, hint |-> file.active])
     \/ /\ ~Opens(file, t.pw) \/ file.nsec = None
        /\ Post([kind |-> "loginFailed"]) /\ UNCHANGED mem
  /\ UNCHANGED <<disk, session, dialogs, used, history>>

(* on_reset_vault: not gated by the busy state, an unlock may be running.  *)
Reset ==
  /\ screen = "unlock" /\ modal = "closed" /\ Spend("reset")
  /\ file' = NoVault /\ screen' = "choose"
  /\ orphans' = orphans \cup home /\ behind' = (behind \/ busy)
  /\ UNCHANGED <<home, selfChats, saved, mem, cell, dialogs, active, primary,
                 tallies, tasks, uiq, cut, raced, failed, strayed, torn>>

RunLoginFailed ==
  /\ uiq # <<>> /\ Head(uiq).kind = "loginFailed"
  /\ uiq' = Tail(uiq)
  /\ busy' = FALSE
  /\ UNCHANGED <<disk, mem, session, modal, importing, backing, tasks, used,
                 history>>

(* The vault is open: boot_backend hands the boot to a worker.             *)
RunLoggedIn ==
  LET c == Head(uiq) IN
  /\ uiq # <<>> /\ c.kind = "loggedIn"
  /\ uiq' = Tail(uiq)
  /\ busy' = FALSE
  /\ cell' = c.obj /\ screen' = "booting"
  /\ Start({[kind |-> "boot", acc |-> c.acc, obj |-> c.obj, hint |-> c.hint]})
  /\ UNCHANGED <<disk, mem, modal, importing, backing, active, primary, tallies,
                 used, history>>
-----------------------------------------------------------------------------
(* Boot: the worker thread, and the background sync it leaves behind.      *)

(* runtime.start() has failed: every account is removed, with its secret   *)
(* (and mutants: only the secrets are, or the nsec of the vault too).      *)
WipeSecrets(obj) ==
  /\ UNCHANGED home
  /\ selfChats' = [a \in Accounts |-> 0]
  /\ Sealed(obj, [mem[obj] EXCEPT !.secrets = {}])
  /\ orphans' = {}
  /\ NoteChange
WipeKey(obj) ==
  /\ home' = {}
  /\ selfChats' = [a \in Accounts |-> 0]
  /\ Sealed(obj, [mem[obj] EXCEPT !.secrets = {}, !.nsec = None])
  /\ orphans' = {}
  /\ NoteChange
Wipe(obj) ==
  /\ home' = {}
  /\ selfChats' = [a \in Accounts |-> 0]
  /\ Sealed(obj, [mem[obj] EXCEPT !.secrets = {}])
  /\ orphans' = {}
  /\ NoteChange

(* login_account, or the same login started by add_account_async: marmot   *)
(* stores the secret in the vault and registers the account.               *)
Register(acc, obj) ==
  /\ home' = home \cup {acc}
  /\ Sealed(obj, With(mem[obj], "secret", acc))
  /\ orphans' = orphans \ {acc}
  /\ NoteChange

(* The account to show first, the self-chat on the boot worker, and the    *)
(* background sync.                                                        *)
Shown(hint, acc, present) == IF hint \in present THEN hint ELSE acc

BootReady(t, present) ==
  LET shown == Shown(t.hint, t.acc, home') IN
  /\ \/ selfChats' = [selfChats EXCEPT ![shown] = IF @ = 0 THEN 1 ELSE @]
     \/ UNCHANGED selfChats
  /\ Post([kind |-> "booted", acc |-> t.acc, active |-> shown, obj |-> t.obj])
  /\ Become(t, {[kind |-> "sync", acc |-> t.acc, obj |-> t.obj,
                 start |-> present]})

BootPresent(t) ==
  /\ t \in Kinds({"boot"}) /\ t.acc \in home
  /\ UNCHANGED home
  /\ BootReady(t, TRUE)
  /\ UNCHANGED <<file, saved, mem, session, dialogs, used, history>>

(* First run of this identity: the runtime has to start, and the account   *)
(* is imported.                                                            *)
BootStart(t) ==
  /\ t \in Kinds({"boot"}) /\ t.acc \notin home
  /\ \/ Free /\ UNCHANGED <<file, home, selfChats, mem, orphans, torn>>
     \/ Spend("startFails") /\ Wipe(t.obj)
  /\ Become(t, {[t EXCEPT !.kind = "import"]})
  /\ UNCHANGED <<saved, session, dialogs, uiq, cut, raced, failed, strayed,
                 behind>>

BootImport(t) ==
  /\ t \in Kinds({"import"})
  /\ \/ /\ Free /\ Register(t.acc, t.obj) /\ BootReady(t, FALSE)
     \/ /\ Spend("netFails") /\ End(t) /\ Post([kind |-> "bootFailed"])
        /\ UNCHANGED <<file, home, selfChats, mem, orphans, torn>>
  /\ UNCHANGED <<saved, session, dialogs, cut, raced, failed, strayed,
                 behind>>

RunBootFailed ==
  /\ uiq # <<>> /\ Head(uiq).kind = "bootFailed"
  /\ uiq' = Tail(uiq)
  /\ screen' = "failed"
  /\ UNCHANGED <<disk, mem, cell, dialogs, active, primary, tallies, tasks, used,
                 history>>

(* The boot closure: the backend is there, a thread backfills the          *)
(* per-account key of the boot account.                                    *)
RunBooted ==
  LET c == Head(uiq) IN
  /\ uiq # <<>> /\ c.kind = "booted"
  /\ uiq' = Tail(uiq)
  /\ screen' = "ready" /\ active' = c.active /\ primary' = c.acc
  /\ raced' = (raced \/ file.active \notin {c.active, None})
  /\ Start({[kind |-> "write", obj |-> c.obj, key |-> "backup",
             acc |-> c.acc]})
  /\ UNCHANGED <<disk, mem, cell, dialogs, tallies, used, cut, failed, orphans,
                 strayed, torn, behind>>

(* spawn_background_sync.  A failed start wipes every account, whichever   *)
(* is shown; only the one the backend was booted with is imported again.   *)
SyncStart(t) ==
  /\ t \in Kinds({"sync"})
  /\ \/ Free /\ End(t) /\ UNCHANGED <<file, home, selfChats, mem, orphans, torn>>
     \/ /\ t.start /\ Spend("startFails") /\ Wipe(t.obj)
        /\ Become(t, {[t EXCEPT !.kind = "heal"]})
  /\ UNCHANGED <<saved, session, dialogs, uiq, cut, raced, failed, strayed,
                 behind>>

(* The account that is imported again (and a mutant: the one shown).       *)
ImportShown(t) == active
Reimported(t)  == t.acc

SyncHeal(t) ==
  /\ t \in Kinds({"heal"}) /\ End(t)
  /\ \/ /\ Free /\ Register(Reimported(t), t.obj) /\ UNCHANGED failed
     \/ /\ Spend("netFails") /\ failed' = TRUE
        /\ UNCHANGED <<file, home, mem, orphans, torn>>
  /\ UNCHANGED <<selfChats, saved, session, dialogs, uiq, cut, raced,
                 strayed, behind>>
-----------------------------------------------------------------------------
(* The running session: switching and adding accounts.                     *)

(* do_switch_account: the account is looked up in the home; the choice is  *)
(* recorded by a thread, another one ensures its self-chat (and a mutant:  *)
(* the choice is not recorded).                                            *)
SwitchUnrecorded(acc, more) ==
  IF acc \in home \ {active}
  THEN /\ active' = acc
       /\ Start(more \cup {[kind |-> "ensure"]})
       /\ strayed' = (strayed \/ Kinds({"ensure", "makeSelf"}) # {})
       /\ UNCHANGED raced
  ELSE Start(more) /\ UNCHANGED <<active, raced, strayed>>
SwitchTo(acc, more) ==
  IF acc \in home \ {active}
  THEN /\ active' = acc
       /\ Start(more \cup {Write("active", acc), [kind |-> "ensure"]})
       /\ raced' = (raced \/ \E t \in Kinds({"write"}) :
                               t.key = "active" /\ t.acc # acc)
       /\ strayed' = (strayed \/ Kinds({"ensure", "makeSelf"}) # {})
  ELSE Start(more) /\ UNCHANGED <<active, raced, strayed>>

Switch(acc) ==
  /\ screen = "ready" /\ acc \in home \ {active} /\ Spend("switch")
  /\ SwitchTo(acc, {})
  /\ UNCHANGED <<disk, mem, cell, screen, dialogs, primary, tallies, uiq, cut,
                 failed, orphans, torn, behind>>

(* The thread of vault_set_async.                                          *)
WriteVault(t) ==
  /\ t \in Kinds({"write"}) /\ End(t)
  /\ Persist(t.obj, With(mem[t.obj], t.key, t.acc))
  /\ raced' = (raced \/ file' # mem'[t.obj])
  /\ UNCHANGED <<home, selfChats, saved, session, dialogs, uiq, cut, failed,
                 orphans, strayed, torn, behind>>

(* ensure_self_chat: the look-up, and after the relay lists are published  *)
(* creation.  Both act for the account that is active then (and a mutant:  *)
(* nothing is looked up).                                                  *)
MakeAnyway(t) ==
  /\ t \in Kinds({"ensure"})
  /\ Become(t, {[kind |-> "makeSelf"]})
  /\ UNCHANGED <<disk, mem, session, dialogs, uiq, used, history>>
FindSelf(t) ==
  /\ t \in Kinds({"ensure"})
  /\ IF selfChats[active] > 0 THEN End(t)
     ELSE Become(t, {[kind |-> "makeSelf"]})
  /\ UNCHANGED <<disk, mem, session, dialogs, uiq, used, history>>

MakeSelf(t) ==
  /\ t \in Kinds({"makeSelf"}) /\ End(t)
  /\ \/ Free /\ selfChats' = [selfChats EXCEPT ![active] = @ + 1]
     \/ Spend("lists") /\ UNCHANGED selfChats
  /\ UNCHANGED <<file, home, saved, mem, session, dialogs, uiq, history>>

(* on_add_account.                                                         *)
AddAccount(acc) ==
  /\ screen = "ready" /\ acc \notin home /\ Spend("add")
  /\ Start({[kind |-> "add", acc |-> acc, merge |-> 0]})
  /\ UNCHANGED <<disk, mem, session, dialogs, uiq, history>>

(* add_account_async's task.  An imported account is sealed by its         *)
(* completion, and the last completion of a merge posts the summary (and   *)
(* mutants: only successes are counted, a failure is counted twice).       *)
TallyTwice(n, ok) == [left |-> n.left - (IF ok THEN 1 ELSE 2), ok |-> n.ok /\ ok]
TallyOk(n, ok) == [n EXCEPT !.left = IF ok THEN @ - 1 ELSE @]
Tally(n, ok)   == [left |-> n.left - 1, ok |-> n.ok /\ ok]

AddDone(t, ok) ==
  IF t.merge = 0
  THEN /\ Post([kind |-> "added", acc |-> t.acc, ok |-> ok])
       /\ End(t) /\ UNCHANGED tallies
  ELSE LET n == Tally(tallies[t.merge], ok) IN
       /\ tallies' = [tallies EXCEPT ![t.merge] = n]
       /\ Become(t, IF ok THEN {Write("backup", t.acc)} ELSE {})
       /\ IF n.left = 0 THEN Post([kind |-> "importDone", ok |-> n.ok])
                        ELSE UNCHANGED uiq

AddLogin(t) ==
  /\ t \in Kinds({"add"})
  /\ \/ Free /\ Register(t.acc, cell) /\ AddDone(t, TRUE)
     \/ /\ Spend("netFails") /\ AddDone(t, FALSE)
        /\ UNCHANGED <<file, home, mem, orphans, torn>>
  /\ UNCHANGED <<selfChats, saved, cell, screen, active, primary, dialogs,
                 cut, raced, failed, strayed, behind>>

RunAdded ==
  LET c == Head(uiq) IN
  /\ uiq # <<>> /\ c.kind = "added"
  /\ uiq' = Tail(uiq)
  /\ \/ c.ok /\ SwitchTo(c.acc, {Write("backup", c.acc)})
     \/ ~c.ok /\ UNCHANGED <<active, tasks, raced, strayed>>
  /\ UNCHANGED <<disk, mem, cell, screen, dialogs, primary, tallies, used, cut,
                 failed, orphans, torn, behind>>
-----------------------------------------------------------------------------
(* Backup and import.                                                      *)

(* on_create_backup_submit: backup::create checks the password and reads   *)
(* one file after the other, in the order of the directory.                *)
Unread == [pw |-> None, vault |-> NoVault, home |-> {}]

CreateBackup(pw) ==
  /\ screen = "ready" /\ ~backing /\ Spend("backup")
  /\ backing' = TRUE
  /\ Start({[kind |-> "check", pw |-> pw]})
  /\ UNCHANGED <<disk, mem, session, busy, modal, importing, uiq, history>>

(* Is the password the vault's (and a mutant: any password will do).       *)
AnyPassword(pw) == Exists
MayBackup(pw)   == Opens(file, pw)

CheckPassword(t) ==
  /\ t \in Kinds({"check"})
  /\ IF MayBackup(t.pw)
     THEN /\ Become(t, {[kind |-> "backup", left |-> {"vault", "home"},
                         got |-> [Unread EXCEPT !.pw = t.pw]]})
          /\ torn' = FALSE /\ UNCHANGED uiq
     ELSE /\ End(t) /\ Post([kind |-> "backedUp"]) /\ UNCHANGED torn
  /\ UNCHANGED <<disk, mem, session, dialogs, used, cut, raced, failed,
                 orphans, strayed, behind>>

ReadFile(t, f) ==
  /\ t \in Kinds({"backup"}) /\ f \in t.left
  /\ Become(t, {[t EXCEPT !.left = @ \ {f},
                   !.got = IF f = "vault" THEN [@ EXCEPT !.vault = file]
                                          ELSE [@ EXCEPT !.home = home]]})
  /\ UNCHANGED <<disk, mem, session, dialogs, uiq, used, history>>

(* The sealed archive is renamed into place.                               *)
FinishBackup(t) ==
  /\ t \in Kinds({"backup"}) /\ t.left = {} /\ End(t)
  /\ archive' = t.got /\ bare' = IF torn THEN Accounts ELSE orphans
  /\ Post([kind |-> "backedUp"])
  /\ UNCHANGED <<file, home, selfChats, mem, session, dialogs, used, history>>

RunBackedUp ==
  /\ uiq # <<>> /\ Head(uiq).kind = "backedUp"
  /\ uiq' = Tail(uiq)
  /\ backing' = FALSE
  /\ UNCHANGED <<disk, mem, session, busy, modal, importing, tasks, used,
                 history>>

(* on_storage_import_backup: the mode is fixed when the modal opens.       *)
OpenImport ==
  /\ screen \in {"choose", "ready"} /\ modal = "closed" /\ Spend("import")
  /\ modal' = IF Exists THEN "merge" ELSE "restore"
  /\ importing' = FALSE
  /\ UNCHANGED <<disk, mem, session, busy, backing, tasks, uiq, history>>

(* Cancel, Escape and the backdrop work while an import is running.        *)
DismissImport ==
  /\ modal # "closed" /\ Spend("dismiss")
  /\ modal' = "closed"
  /\ behind' = (behind \/ Kinds({"unpack", "restore"}) # {})
  /\ UNCHANGED <<disk, mem, session, busy, importing, backing, tasks, uiq, cut,
                 raced, failed, orphans, strayed, torn>>

(* on_import_backup_submit: a restore never starts over a vault (and a     *)
(* mutant: the mode of the modal decides).  The button is disabled while   *)
(* an import runs, the Enter key of the password field is not.             *)
ModeDecides == modal = "restore"
MayRestore  == modal = "restore" /\ ~Exists

SubmitImport(pw) ==
  /\ modal # "closed" /\ archive # NoArchive /\ Spend("submit")
  /\ \/ /\ modal = "merge" /\ Start({[kind |-> "readKeys", pw |-> pw]})
        /\ UNCHANGED behind
     \/ /\ MayRestore /\ Start({[kind |-> "unpack", pw |-> pw]})
        /\ behind' = (behind \/ busy \/ Kinds({"unpack", "restore"}) # {})
  /\ importing' = TRUE
  /\ UNCHANGED <<disk, mem, session, busy, modal, backing, uiq, cut, raced,
                 failed, orphans, strayed, torn>>

Ended == [kind |-> "importEnded"]

(* read_archive: the password opens the archive, or the import ends.       *)
UnpackArchive(t) ==
  /\ t \in Kinds({"unpack"})
  /\ \/ /\ archive.pw = t.pw
        /\ \E todo \in {<<"vault", "home">>, <<"home", "vault">>} :
             Become(t, {[kind |-> "restore", pw |-> t.pw, todo |-> todo]})
        /\ UNCHANGED uiq
     \/ archive.pw # t.pw /\ End(t) /\ Post(Ended)
  /\ UNCHANGED <<disk, mem, session, dialogs, used, history>>

(* restore_into_home writes the files in place, one by one.                *)
RestoreFile(t) ==
  /\ t \in Kinds({"restore"}) /\ t.todo # <<>>
  /\ \/ /\ Free /\ Become(t, {[t EXCEPT !.todo = Tail(@)]})
        /\ IF Head(t.todo) = "vault"
           THEN /\ file' = archive.vault /\ UNCHANGED <<home, orphans>>
           ELSE /\ home' = archive.home /\ UNCHANGED file
                /\ orphans' = orphans \cup archive.home
        /\ UNCHANGED <<uiq, cut>>
     \/ /\ Spend("diskError") /\ End(t) /\ Post(Ended)
        /\ cut' = TRUE /\ UNCHANGED <<file, home, orphans>>
  /\ UNCHANGED <<selfChats, saved, mem, session, dialogs, raced, failed,
                 strayed, torn, behind>>

FinishRestore(t) ==
  /\ t \in Kinds({"restore"}) /\ t.todo = <<>> /\ End(t)
  /\ Post([kind |-> "restored", pw |-> t.pw])
  /\ orphans' = orphans \ (home \cap file.secrets)
  /\ UNCHANGED <<disk, mem, session, dialogs, used, cut, raced, failed,
                 strayed, torn, behind>>

(* The restored vault is unlocked with the same password.                  *)
RunRestored ==
  LET c == Head(uiq) IN
  /\ uiq # <<>> /\ c.kind = "restored"
  /\ uiq' = Tail(uiq)
  /\ importing' = FALSE /\ modal' = "closed" /\ busy' = TRUE
  /\ Start({[kind |-> "open", pw |-> c.pw]})
  /\ UNCHANGED <<disk, mem, session, backing, used, history>>

(* merge_nsecs.                                                            *)
ReadKeys(t) ==
  /\ t \in Kinds({"readKeys"}) /\ End(t)
  /\ IF archive.pw = t.pw /\ Opens(archive.vault, t.pw)
     THEN Post([kind |-> "merge", nsecs |-> Nsecs(archive.vault)])
     ELSE Post(Ended)
  /\ UNCHANGED <<disk, mem, session, dialogs, used, history>>

(* merge_imported_accounts: the keys this install lacks are logged in.     *)
RunMerge ==
  LET new == Head(uiq).nsecs \ home IN
  /\ uiq # <<>> /\ Head(uiq).kind = "merge"
  /\ uiq' = Tail(uiq)
  /\ IF screen = "ready" /\ new # {}
     THEN /\ tallies' = Append(tallies, [left |-> Cardinality(new), ok |-> TRUE])
          /\ Start({[kind |-> "add", acc |-> a, merge |-> Len(tallies) + 1]
                     : a \in new})
          /\ UNCHANGED importing
     ELSE importing' = FALSE /\ UNCHANGED <<tallies, tasks>>
  /\ UNCHANGED <<disk, mem, cell, screen, active, primary, busy, modal,
                 backing, used, history>>

RunImportEnded ==
  /\ uiq # <<>> /\ Head(uiq).kind = "importEnded"
  /\ uiq' = Tail(uiq)
  /\ importing' = FALSE
  /\ UNCHANGED <<disk, mem, session, busy, modal, backing, tasks, used,
                 history>>

(* The summary of a merge.                                                 *)
RunImportDone ==
  /\ uiq # <<>> /\ Head(uiq).kind = "importDone"
  /\ uiq' = Tail(uiq)
  /\ importing' = FALSE /\ modal' = IF Head(uiq).ok THEN "closed" ELSE modal
  /\ UNCHANGED <<disk, mem, session, busy, backing, tasks, used, history>>
-----------------------------------------------------------------------------
(* The process ends, by the user or by a crash, and is started again.      *)
Exit ==
  /\ Spend("exit")
  /\ mem' = <<>> /\ cell' = 0 /\ active' = None /\ primary' = None
  /\ busy' = FALSE /\ modal' = "closed" /\ importing' = FALSE
  /\ backing' = FALSE /\ tallies' = <<>> /\ tasks' = {} /\ uiq' = <<>>
  /\ screen' = IF Exists THEN "unlock" ELSE "choose"
  /\ cut' = (cut \/ Kinds({"seal", "restore"}) # {})
  /\ raced' = FALSE
  /\ failed' = (failed \/ Kinds({"heal"}) # {})
  /\ UNCHANGED <<disk, orphans, strayed, torn, behind>>
-----------------------------------------------------------------------------
User == \/ \E pw \in Passwords : \/ \E a \in Accounts : LoginWithNsec(a, pw)
                                 \/ Unlock(pw) \/ CreateBackup(pw)
                                 \/ SubmitImport(pw)
        \/ \E a \in Accounts : Switch(a) \/ AddAccount(a)
        \/ Reset \/ OpenImport \/ DismissImport \/ Exit

Worker == \E t \in tasks :
  \/ CreateVault(t) \/ SealKey(t) \/ OpenVault(t)
  \/ BootPresent(t) \/ BootStart(t) \/ BootImport(t)
  \/ SyncStart(t) \/ SyncHeal(t) \/ WriteVault(t)
  \/ FindSelf(t) \/ MakeSelf(t) \/ AddLogin(t)
  \/ CheckPassword(t) \/ ReadFile(t, "vault") \/ ReadFile(t, "home")
  \/ FinishBackup(t) \/ UnpackArchive(t) \/ RestoreFile(t)
  \/ FinishRestore(t) \/ ReadKeys(t)

RunClosure == \/ RunLoginFailed \/ RunLoggedIn \/ RunBootFailed \/ RunBooted
              \/ RunAdded \/ RunBackedUp \/ RunRestored \/ RunMerge
              \/ RunImportEnded \/ RunImportDone

Next == User \/ Worker \/ RunClosure

Spec == Init /\ [][Next]_vars
-----------------------------------------------------------------------------
(* Properties.                                                             *)

Task ==
  [kind : {"create"}, acc : Accounts, pw : Passwords]
  \cup [kind : {"seal"}, acc : Accounts, obj : Nat]
  \cup [kind : {"open", "check", "unpack", "readKeys"}, pw : Passwords]
  \cup [kind : {"boot", "import"}, acc : Accounts, obj : Nat,
        hint : Accounts \cup {None}]
  \cup [kind : {"sync", "heal"}, acc : Accounts, obj : Nat, start : BOOLEAN]
  \cup [kind : {"write"}, obj : Nat, key : {"backup", "active"}, acc : Accounts]
  \cup [kind : {"ensure", "makeSelf"}]
  \cup [kind : {"add"}, acc : Accounts, merge : Nat]
  \cup [kind : {"backup"}, left : SUBSET {"vault", "home"},
        got : [pw : Passwords, vault : Vault, home : SUBSET Accounts]]
  \cup [kind : {"restore"}, pw : Passwords,
        todo : {<<"vault", "home">>, <<"home", "vault">>, <<"home">>,
                <<"vault">>, <<>>}]

Closure ==
  [kind : {"loginFailed", "bootFailed", "backedUp", "importEnded"}]
  \cup [kind : {"loggedIn"}, acc : Accounts, obj : Nat,
        hint : Accounts \cup {None}]
  \cup [kind : {"booted"}, acc : Accounts, active : Accounts, obj : Nat]
  \cup [kind : {"added"}, acc : Accounts, ok : BOOLEAN]
  \cup [kind : {"restored"}, pw : Passwords]
  \cup [kind : {"merge"}, nsecs : SUBSET Accounts]
  \cup [kind : {"importDone"}, ok : BOOLEAN]

(* Every variable has its type; a vault object a task uses exists.         *)
Stored ==
  /\ file \in Vault /\ home \subseteq Accounts
  /\ selfChats \in [Accounts -> Nat]
  /\ archive \in [pw : Passwords \cup {None}, vault : Vault,
                  home : SUBSET Accounts]
  /\ bare \subseteq Accounts /\ orphans \subseteq Accounts
Shows ==
  /\ screen \in {"choose", "unlock", "booting", "ready", "failed"}
  /\ modal \in {"closed", "merge", "restore"}
  /\ active \in Accounts \cup {None} /\ primary \in Accounts \cup {None}
  /\ tallies \in Seq([left : 0..Cardinality(Accounts), ok : BOOLEAN])
  /\ used \in [Limited -> Nat]
Flags ==
  /\ busy \in BOOLEAN /\ importing \in BOOLEAN /\ backing \in BOOLEAN
  /\ cut \in BOOLEAN /\ raced \in BOOLEAN /\ failed \in BOOLEAN
  /\ strayed \in BOOLEAN /\ torn \in BOOLEAN /\ behind \in BOOLEAN
Works ==
  /\ mem \in Seq(Vault) /\ cell \in 0..Len(mem)
  /\ tasks \subseteq Task /\ uiq \in Seq(Closure)
  /\ \A t \in Kinds({"seal", "boot", "import", "sync", "heal", "write"}) :
       t.obj \in DOMAIN mem
TypeOK == Stored /\ Shows /\ Flags /\ Works

(* Vault::persist: whatever the threads, failed writes, self-heals and     *)
(* crashes, a sealed nsec leaves the file only when the user resets the    *)
(* vault, or when a restore or a reset ran next to a login.                *)
Keys == (file.backups \cup {file.nsec}) \ {None}
KeysSurvive ==
  [][(screen = "unlock" /\ screen' = "choose") \/ behind' \/ Keys \subseteq Keys']_vars

(* wiring/backup.rs:182: a full restore must never clobber an identity     *)
(* that came to exist while the modal was open.  It holds when the modal   *)
(* is left alone; dismissing it does not stop the restore.                 *)
RestoreKeepsIdentity ==
  [][file.nsec \in {None, file'.nsec} \/ screen = "unlock" \/ behind']_vars

(* VaultSecretStore: an account marmot has on disk has its secret sealed   *)
(* in the same vault, unless a reset or a torn archive took it away.       *)
AccountsHaveSecrets == behind \/ home \ orphans \subseteq file.secrets

(* on_unlock's "Vault has no key": a vault without its nsec is a login     *)
(* that is going on, or was cut short.                                     *)
VaultHasKey == Exists /\ file.nsec = None =>
                 cut \/ behind \/ Kinds({"seal"}) # {}

(* vault.rs:36: the last active account is recorded, so that a restart     *)
(* lands back on it, unless a second switch overtakes the first write.     *)
SwitchRemembered ==
  screen = "ready" /\ ~raced /\ ~behind
    /\ (\A t \in Kinds({"write"}) : t.key # "active")
    => file.active \in {active, None} /\ (file.active = None => active = primary)

(* backup::create: the password the backup was asked for opens its vault,  *)
(* and the accounts in it have their secrets, unless accounts changed      *)
(* while it was read or had lost theirs before.                            *)
BackupOpens ==
  archive # NoArchive /\ ~behind =>
    /\ Opens(archive.vault, archive.pw)
    /\ archive.home \ bare \subseteq archive.vault.secrets

(* spawn_background_sync: after a self-heal the account the backend was    *)
(* booted with is on disk again.                                           *)
PrimaryInHome ==
  screen = "ready" => \/ primary \in home \/ Kinds({"heal"}) # {}
                      \/ failed \/ behind

(* ensure_self_chat: an account gets one "Saved Messages" chat, unless the *)
(* active account changes while one is being ensured.                      *)
OneSelfChat == strayed \/ behind \/ \A a \in Accounts : selfChats[a] <= 1

(* A dialog that shows a spinner has a thread or a closure that will stop   *)
(* it, whatever failed: a merge counts its failures too.                   *)
Posted(ks) == \E i \in DOMAIN uiq : uiq[i].kind \in ks
SpinnersEnd ==
  /\ busy => \/ Kinds({"create", "seal", "open"}) # {}
             \/ Posted({"loggedIn", "loginFailed"})
  /\ importing =>
       \/ Kinds({"unpack", "restore", "readKeys"}) # {}
       \/ \E t \in Kinds({"add"}) : t.merge # 0
       \/ Posted({"restored", "merge", "importEnded", "importDone"})
  /\ backing => Kinds({"check", "backup"}) # {} \/ Posted({"backedUp"})
=============================================================================
