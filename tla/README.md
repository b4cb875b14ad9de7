# White Noise Linux, specified

TLA+ models of the desktop client in this repository, TLC configurations that
check them on small instances, and TLAPS proofs about them for all instances.
Source positions are given as `file:line` below `src/src/`.

## The system

One process, one window. Four kinds of threads share its state:

- the **Slint event loop** runs user callbacks, timers and, in the order they
  were posted, the closures other threads hand it with
  `slint::invoke_from_event_loop`. It never runs two of them at once;
- **tokio workers** run the tasks of the external `marmot_app` runtime (MLS
  groups over Nostr relays), the `on_done` callbacks of asynchronous sends,
  snapshot reads and the live subscriptions;
- the **connectivity watcher** (extra.rs:1133) polls the relays every 5 s;
- short-lived OS threads: boot, vault writes, unlocking.

Shared state sits in `Arc<Mutex<..>>` cells made in `main` (main.rs:150-232):
`backend_cell`, `vault_cell`, `group_ids`, `pending_state`, the watcher handles;
and in process-wide statics (state.rs): `offline_inflight`,
`offline_flush_requested`, `offline_last_connected`, the temp-id counter, the
hidden-message sets.

### Components

| Component | State | Operations | Talks to | What makes it correct |
|---|---|---|---|---|
| Durable send queue (offline_queue.rs, main.rs, messaging.rs, forward.rs, extra.rs) | `offline-queue/` files, overlay sends, in-flight marks, flush flag, online count, temp-id counter | compose, forward, retry, completion, flush, watcher poll, reset | backend sends, group list, overlay | nothing queued is lost, nothing is sent twice, a bubble that says sending is telling the truth, what is queued eventually leaves |
| Account switching (panes.rs) | active account, watchers | switch, add account, unlock, reset | everything per-account | nothing of one account shows or acts under another |
| Chat list (chatlist.rs) | `group_ids`, chat and archive models, pins | snapshot, refresh, merge, pin, chat watcher | unread, rows | index `i` means the same chat in every parallel list |
| Message rows (chatmodel.rs, chrome.rs) | one row model per chat, window sizes | select, watcher event, ack swap, rebuild | overlay, backend store | each message once, in order, grouped the same way on every path |
| Reactions, edits, deletes (chatmodel.rs, main.rs, messaging.rs) | overlay of reactions, edits, deletes | toggle, edit, retract, completion | rows | the overlay wins until acknowledged and leaves no trace after |
| Unread counters (unread.rs, chatlist.rs) | markers, counters | read, message, recount | chat list, badge | a counter equals the messages after the marker |
| Vault (vault.rs) | one sealed file, one object in memory per unlock | create, open, set, remove | accounts, queue, cache | no sealed key is lost, a crash leaves the old or the new file |
| Backup and restore (backup.rs, wiring/backup.rs) | archive, modal, spinners | create, restore, merge keys | vault, home directory | a restore never replaces an identity, an archive opens with its password, spinners end |
| Backend sessions (backend.rs, backend/groups.rs) | runtime, account labels, caches | boot, sync, self-heal, add or switch account | marmot | one session per account, caches belong to the active one |
| Media (media.rs, media_cache.rs) | windows, in-flight downloads, sealed cache, viewer and slideshow | download, preview, page | vault, rows | a download lands where it was asked for, once, and its spinner stops |
| Hidden messages (state.rs) | a set per account | delete for me | rows, settings | what is hidden stays hidden, for its account only |
| Notifications (notify.rs, chatlist.rs) | last message noted per chat, mutes | watcher, mute | chat list | no message twice, none that was on screen |
| Settings and drafts (settings.rs) | one JSON file, the composer | type, select, send, edit, exit | chats | a draft stays with its chat |
| Audio and video (audio.rs, mpv.rs, media.rs) | one video player, one clip, one recorder | open, dismiss, record, stop | viewers, send queue | what plays is what the viewer shows |
| Rendering, observability, Slint UI | none that other parts depend on | | | not modelled |

### What is hard here

The hazards are listed with their lines in `PROJECT.json`. The recurring shapes:
state captured before an asynchronous hop and used after it (chat indices, the
active account, snapshots); a decision on a worker whose effect is a closure
posted later, with other callbacks in between; RAM state that restarts while
files do not; boolean marks that one thread sets and another lifts; one-slot
overlays shared by two operations.

## Modules

| Module | Models | Status |
|---|---|---|
| `SendQueue`, with its abstraction `Outbox` | the durable send queue, restart and retry | checked; proved in `SendQueueProofs`: types, provenance, nothing lost, bubbles, duplicates, marks, the refinement |
| `ChatView` | chat list, selection, watcher by position, echo and acknowledgement, pins, archive | checked; proved in `ChatViewProofs` |
| `Accounts` | vault, login, boot, self-heal, switch, added accounts, backup and restore | checked; proved in `AccountsTypes` (types, spinners) and `AccountsProofs` (everything else a run checks) |
| `Messages` | rows of the open chat: overlays, aggregation, grouping, hidden messages, attachments | checked; proved in `MessagesTypes` and `MessagesProofs` |
| `Attention` | unread counters, notifications, drafts | checked, composed in `Window` |
| `Players` | picture viewer, video viewer, recorder | checked, composed in `Window` |
| `EventLoop` | the posted closures `Attention` and `Players` share, and their bounds | base of both |
| `Window` | `Attention` and `Players` on one event loop, the players working for the open chat; the end of the process takes both | checked; proved in `WindowProofs` |
| `Sublists` | the filter the merges of the chat list use, as a recursive function | used by `Attention` and `ChatView` |
| `DataLemmas` | no code: lemmas about sets of numbers, bags and sublists | cited by `MessagesTypes`, `WindowProofs` and `ChatViewProofs` |

Each `MC` module gives one of the first ones its TLC instance. What is open: an
abstract view of `ChatView` (a set of messages per chat) and an atomic register for
the vault file are worth stating, but `wrong_slot` and the two vault objects of one
process mean that neither refinement holds as the code stands.

## SendQueue

| Specification | Code |
|---|---|
| `SendText`, `SendMedia`, `RequestForward` | `on_send_message` (messaging.rs:73), `on_request_forward` (forward.rs:18) |
| `Enqueue` | what each first send does in one callback: `add_send`, row, `offline_persist`, in-flight mark, task |
| `Retry` | `on_retry_message` (messaging.rs:276), its three endings |
| `SwitchAccount` | `do_switch_account` (panes.rs:40) |
| `Publish`, `Fail` | the marmot send inside the task: external, it either reaches a relay or is rolled back |
| `Resolve`, `ResolvePanics` | `on_done` on the worker (main.rs:299) up to the post |
| `FetchChats`, `RunChats` | `fetch_chat_list_snapshot`, `refresh_chats_from` |
| `FinishGather` | the forward's worker: source read, downloads, the last one flushes |
| `RunDropped`, `RunAck`, `RunOfflineError`, `RunRealError` | the closure `on_done` posts (main.rs:336-440) |
| `RunFirstSpawn`, `RunReplay` | the closures of `spawn_attachment_send`, `spawn_album_send`, `spawn_text_forward` |
| `WatcherTick` | one poll of the connectivity watcher |
| `FlushTick`, `FlushSkip`, `FlushForget`, `FlushSend` | the flush timer and one entry of `flush_offline_queue`; the event loop is busy until the loop ends, workers are not |
| `Exit`, `Crash`, `UiPanic`, `Restart`, `ResetVault` | end of the process, next start, vault reset |

`uiq` is the event loop's queue of posted closures; `disk` the sealed files,
keyed by temp id; `ops` the running tasks. `idOf`, `queuedAt`, `composed`,
`discarded`, `overtaken` and `lost` are history for the properties and guard
nothing, with one exception: `composed` makes every message be sent off once.

Abstractions. A message is a model value with a kind, a chat and a body class.
Attachments and albums are one kind, `media`: both are posted closures with the
same life. A press that sends text and files is two messages. `looks_already_sent`
reads a message window; the model's window is unbounded, so the dedup can only
match more often. Lifting the in-flight mark and posting the completion are one
step: between them the worker only polls. Rows on screen are not modelled, only
the overlay behind them. The active account survives a restart, as it does when
its vault write lands.

Two facts about libraries decide how much of this runs, so they are constants.
`TimerOutlivesScope` is FALSE as built: `_offline_flush_timer` is a local of
`wire_extra`, and a `slint::Timer` stops when it is dropped. `NestedBlockOnPanics`
is TRUE as built: tokio panics when a worker calls `block_on`. The passing runs
set them so that the code behind them is reached: FALSE for `TimerOutlivesScope`
only removes behaviours, so what holds without it holds as built.

### Properties

- `Provenance`: whatever carries a temp id carries it for the message queued
  under it; a message waits for its first id in one place only.
- `Retained`: a queued message is on disk until it reaches a relay, with the
  two exceptions the code has (reused ids, equal bodies), a full disk and a
  reset aside. `SurvivesRestart` is the promise without the exceptions.
- `AtMostOnceForText`: a text reaches the relays twice only when the flush
  overtakes a posted completion, an acknowledgement finds its chat not listed,
  the publish lies outside the dedup window, or a new process has handed its
  temp id out again (`Reused`), so that another message's file and mark are in
  its place.
- `BubbleBacked`: a bubble that says sending has a task, a completion on its
  way, or a durable entry.
- `InflightBacked`: every in-flight mark has a task or a posted replay that
  will lift it. (With an account switch it fails by the code: a replay whose
  chat is gone returns before it dispatches. `session` has no switch.)
- `OutboxImplemented`: the files and the set of delivered messages behave as
  `Outbox`: submitted once, released only after delivery.
- `QueuedTextLeaves`: a queued text eventually reaches the relays or turns red,
  unless the report of its failure finds its chat not listed.
- `FailureIsReported`, `ListedIsActive`: what comments claim; see findings.

### Runs

| Run | Instance | Shows |
|---|---|---|
| `session` | a text and an attachment, one account; one outage, one refused send; no crash, no switch | `BubbleBacked`, `InflightBacked`, `AtMostOnceForText`, `OutboxImplemented` |
| `restart` | a text and a forward, two accounts (symmetric) in one chat; one each of crash, outage, switch, reset, full disk; failures panic | `TypeOK`, `Provenance`, `Retained`, `BubbleBacked` |
| `recovery` | one text, clock of two ticks, window 0; a crash and an outage; fairness | `AtMostOnceForText`, `QueuedTextLeaves` |
| `stranded` | the timer as built, fairness | `QueuedTextLeaves` fails |
| `outage_panics` | `block_on` as built | `FailureIsReported` fails |
| `id_reuse` | a crash | `SurvivesRestart` fails |
| `stale_chats` | two switches, a chat only one account has | `ListedIsActive` fails |

Bounds. Two messages are enough for every pairwise hazard (shared id, shared
body, one overtaking the other); the temp-id bound equals the number of first
sends, so a restarted counter hands out an id again. Each fault happens at most
once (`Limit`), which still orders it anywhere among the other steps. Deadlock
checking is off: with all messages sent and budgets spent the system may rest.

Fairness (`recovery`, `stranded`). Weak fairness of each message's task, of
posted closures, snapshot and gather workers, the watcher, the timer and the
flush loop: tokio and the event loop run what is ready. Of `RelayUp` and
`Restart`: the promise is about a relay that comes back and a user who starts
the program again. The user owes nothing else, in particular no retry.
`OutagesOutlastPoll` restricts `recovery` to outages the 5 s poll can see;
without it a shorter one strands a message (hazard at extra.rs:1146).

## ChatView

The list of chats, the rows of each, the open position and the message watcher.
All of it is written by the event loop only, but mostly by closures that carry
what a worker read earlier, often with the position its chat had then.

| Specification | Code |
|---|---|
| `Select`, `ReadWindow`, `RunSelect` | `on_chat_selected` (wiring/backup.rs): position at once, snapshot on a worker, rebuild and watcher in the closure |
| `RequestOlder`, `RunOlder` | `on_messages_request_older` |
| `Send`, `Publish`, `Resolve`, `RunAck` | the optimistic bubble, the task, the closure of its completion when it succeeds |
| `TogglePin`, `RunPin` | `on_toggle_pin_chat`, `apply_pin_order` |
| `Archive`, `CommitArchive`, `RunReload` | `on_archive_chat`, its thread, the refresh after a failed write |
| `Receive`, `Subscribe`, `WatcherCallback`, `ReportAgain`, `RunEcho` | marmot's record, `install_message_watcher` and its kind-9 closure |
| `NewChat`, `RunChat` | a welcome, `install_chat_watcher` |
| `RequestMerge`, `RunMerge` | `merge_chat_list_rows_from` |
| `RequestRefresh`, `RunRefresh` | `refresh_chats_from` with `populate_models_for_active` (boot) or the clamp of `refresh_all_chat_models_async` |
| `Ranked`, `RailOrder`, `Default`, `Clamp`, `Rebuilt`, `Attach` | the helpers these share |

Positions count from 1; position 1 is index 0. `moved`, `missed`, `blanked` and
`early` are history for the properties and guard nothing.

Abstractions. One account. A row is its message, its chat and whether it is the
optimistic one; wording, day separators and grouping are left out. Windows are
unbounded and reads succeed. A send in this module succeeds; failures, which
leave the row in place, are `SendQueue`'s. Reactions, edits and retractions are
`Messages`'s. A chat is created and unarchived elsewhere; "Saved Messages" may
join while the window is up, as `ensure_self_chat_async` makes it.

### Properties

- `ParallelLists`: the chat ids and the row models stay parallel on every path
  that appends, permutes, removes or replaces, and no chat is listed twice.
- `OneRowEach`: a record has one row per position, whatever the order of
  snapshot, echo, repeated echo and acknowledgement; an own message shown as a
  record before its acknowledgement is the exception the code has.
- `PendingShown`: the pending rows of a chat are its overlay, in order.
- `WatchesOpen`: when no selection is under way the watcher is the open chat's.
- `KeepsOpen`: pinning, merging, new chats and messages never change which chat
  is open.
- `WatchedIsComplete`: the watched chat shows every record, or its echo is on
  the way, or the record fell between snapshot and subscription (`missed`).
- `RowsBelong`: a position shows rows of its own chat; see findings.

`PendingShown`, `WatchesOpen` and `WatchedIsComplete` are stated up to the first
move of a chat (`moved`): a pin, an archiving or a refresh leaves positions
captured earlier stale, which `wrong_slot` shows. `PendingShown` also excepts
chats whose pending rows a full refresh dropped (`blanked`).

### Runs

| Run | Instance | Shows |
|---|---|---|
| `view` | a chat, and "Saved Messages" that joins late; one message received, one sent; two selections and one of the rarer operations | `TypeOK`, `ParallelLists`, `OneRowEach`, `PendingShown`, `WatchesOpen`, `WatchedIsComplete`, `KeepsOpen` |
| `wrong_slot` | two chats, one selection, one pin | `RowsBelong` fails |

Bounds. Two chats are the fewest that can change places, two selections the
fewest that can overlap. One sent and one received message meet in every order of
echo, snapshot and acknowledgement. `MaxOps` lets one of pin, archive, merge,
refresh, older and repeated report happen, at any moment; pairs of them are not
explored. Deadlock checking is off: with its budgets spent the window rests.

## Accounts

The identities of an install, from the empty screen to an unlocked session, with
every file that outlives the process.

| Specification | Code |
|---|---|
| `file`, `mem`, `cell` | `vault.db`; the `Vault` objects opened; the one in `vault_cell` |
| `With`, `WriteVault` | `Vault::set`, `persist`: the whole map is sealed again; `vault_set_async` (chatlist.rs:875), one thread per write |
| the login actions | creating and sealing a vault, unlocking, their threads and closures (wiring/backup.rs, vault.rs) |
| `BootPresent`, `BootStart`, `BootImport`, `RunBooted` | `Backend::boot` and the closures of main.rs:679-846 |
| `SyncStart`, `Wipe`, `Reimported`, `SyncHeal` | `spawn_background_sync` with its self-heal (backend.rs:344-413) |
| `FindSelf`, `MakeSelf` | `ensure_self_chat` (groups.rs:73) |
| `Switch`, `SwitchTo` | `do_switch_account` (panes.rs:40) |
| `AddAccount`, `AddLogin`, `AddDone`, `Tally` | `on_add_account`, `add_account_async`, `merge_imported_accounts` |
| `CreateBackup` .. `RunBackedUp` | `backup::create`, file by file |
| `SubmitImport` .. `RunImportDone` | the two import modals, `restore_into_home`, `merge_nsecs` |

A password stands for the key derived from it; an account for its nsec, its label
and its databases. A write of the vault file is atomic (temporary file and
rename), a restore of it is not: other files may follow. marmot's own databases
are the set `home`.

Properties: `KeysSurvive` and `RestoreKeepsIdentity` are about single steps and
hold against every interleaving of the writers; `AccountsHaveSecrets`,
`VaultHasKey`, `SwitchRemembered`, `BackupOpens`, `PrimaryInHome`, `OneSelfChat`
and `SpinnersEnd` relate two files, or a file and the session. Each says in its
comment what it excepts. The exceptions are history variables that no guard
reads, and they are what this module found out about the code:

- `behind`: dismissing the import modal does not stop its restore, so a login
  started afterwards runs next to it, and the restore replaces the vault the
  login has just sealed, against the intent of the check at
  wiring/backup.rs:182-184. A vault reset next to a login does the same.
- `raced`: `vault_set_async` starts a thread per write; of two quick switches the
  first may be written last, and the next start lands on the wrong account.
- `cut`: a process that dies between creating the vault and storing the nsec
  leaves a vault without one ("Vault has no key").
- `failed`: after a self-heal only the account of the boot's nsec is logged in
  again, and if that fails nothing retries.
- `orphans`: a reset removes the vault but not marmot's accounts.
- `strayed`: `ensure_self_chat` reads the active account twice.
- `torn`: a backup reads file after file while accounts are added.
- `bare`: what such a backup cost its archive, and the accounts a reset had left
  without a secret before it; `BackupOpens` excepts them.

`accounts` runs this on a fresh install, on one with one account and on one with
two, all with symmetric accounts and passwords. Logins, unlocks, switches and
submits happen twice, every fault once, and at most two different rare
operations (a switch, an added account, a backup, a reset, a failed write, a
crash ..) in one behaviour: pairs of them in every order, triples not. `InOrder`
stops at `behind`, after which every property makes its exception.

## Messages

The rows of one chat, rebuilt from snapshots of marmot's records and from what the
user has done that marmot has not yet confirmed.

| Specification | Code |
|---|---|
| `Build`, `Rewritten`, `Tombstone`, `WithReaction`, `Edits`, `Deleted`, `Reactions`, `Chips` | `chat_message_from_with_reactions`, the overlays, `aggregate_*` (chatmodel.rs) |
| `Grouped`, `Replaced`, `Pushed` | `apply_grouping`, `preserve_grouping_flags`, `push_message_grouped` |
| `React`, `Unreact`, `SubmitEdit`, `Delete`, `Hide`, `SwitchTo`, `Tap` | the callbacks (extra.rs, main.rs:459, messaging.rs:564, panes.rs:40) |
| `Stored`, `Completed`, `Settle`, `RunDone` | marmot's answer, `on_done`, its closure |
| `Read`, `Hand`, `RunRefresh`, `RunRebuild`, `RunOpen`, `RunList` | a snapshot is read on the runtime, handed over, applied |
| `Report`, `RunEvent`, `RunEcho` | `install_message_watcher` |
| `RunAutoload`, `Loaded`, `LoadFailed`, `Dispatch` | `autoload_album_cells`, `on_attachment_clicked`, the two caches |

A text is the body (`none`) or an edit; a chip is an emoji with its number and
whether it is mine. The window is counted in records, as `messages(limit)` counts
them, so a reaction may push a message out of it. marmot drops withdrawn
reactions from its records: external.

Properties: `RowsSettle` (with nothing under way each row is what the records make
of it), `OptimisticShown` (until then the user's own act is what is shown),
`OverlayBacked` (a slot lives as long as its operation), `HiddenStays`,
`GroupsJoin`, `OneDownload`, `CellsSettle`, `AuthorsOnly`. Exceptions, again
history variables and facts about the code:

- `crossed`: the overlay has one slot per message and kind; the first of two
  completions clears the second one's (main.rs:459-523).
- `behind`: a refresh or a rebuild that read an older snapshot may land after a newer
  one, and a record stored between snapshot and watcher is not reported. An older
  rebuild may even take a newer row away; the refresh that finds no row then returns
  (chatmodel.rs:716-743), and what it had read counts as seen, so that the rebuild that
  brings the row back ends the exception only if it read as much. `HiddenStays`
  needs no such exception: whatever lands late asks the hidden set again.
- `echoed`: the watcher appends a message without asking whether it was hidden
  meanwhile, against chatmodel.rs:84-86.
- `broken`: the failure of an album or audio load refreshes no row.

Also seen, and not a property: `push_message_grouped` ignores
`GROUP_WINDOW_SECS`, which chatmodel.rs:904-907 says it applies (a rebuild
corrects the row); a tombstone keeps the attachment fields chatmodel.rs:295 says
it has none of; two taps on an audio clip download it twice.

`conversation` has a voice clip of one's own, a picture and an album of somebody
else that arrives later than a group's span, two accounts in the chat, two edits'
texts (symmetric), a window of three records and two operations besides failures:
an operation against an operation, a record, a failure or a switch, in every
order: 455,186 distinct states, with no constraint on them. A peer's withdrawn
reaction and videos are left out here.

## Window

`Attention` and `Players` on one event loop.

| Specification | Code |
|---|---|
| `Callback`, `RunChat`, `Notify` | `install_chat_watcher`: the count on the runtime's thread, the closure, the notification (chatlist.rs:1224-1365) |
| `ReadList`, `CountChat`, `HandList`, `RunList`, `RunMerge` | `fetch_chat_list_snapshot`, whose recount is not atomic; `refresh_chats_from`; `merge_chat_list_rows_from` |
| `Select`, `Send`, `RequestEdit`, `EndEdit`, `RestoreDraft`, `Exit` | the places that save, restore or empty the composer |
| `Crash` | the process dies, at worst in `fs::write` of the settings: `Settings::load` then falls back to the defaults |
| `LookAt`, `SlidesRead`, `RunSlides`, `Leaf`, `Load`, `Fetched`, `RunPicture` | the picture viewer and its slideshow (media.rs:500-650) |
| `Watch`, `FilmLoaded`, `DismissFilm` | the video viewer (media.rs:774-930, extra.rs:253) |
| `Record`, `TickerWakes`, `StopRecording`, `RunStop`, `CancelRecording` | the recorder (messaging.rs:1096-1214) |

Messages are somebody else's; every account lists the same chats; there are no
chat requests and no "Saved Messages"; `NOTIF_SKEW_SECS` is 0; the master switch of
notifications is on. A burst of messages is announced by the latest, as in the
code. The clock counts seconds, because markers do.

Properties: `UnreadSettles`, `NotifiedOnce`, `DraftKept`, and `PlayersBelong`, the
conjunction of `PictureBelongs`, `VideoBelongs` and `RecordingShown`. What they
except:

- `raced`: a count computed earlier is put in place over a newer one, a snapshot
  worker's recount crosses a watcher's, or a message arrives in the second the
  marker was set (`count_unread` is strict). A switch of accounts is one of the
  crossings: it recounts every chat and replaces the watcher, so a chat the old
  watcher was still to report, while an older count of it is posted, is left with
  that count.
- `stacked`: selecting a chat calls `refresh_unread_chrome` without
  `set_rail_badges` (wiring/backup.rs:1166), against chatlist.rs:1184-1187, and the
  badge grows by the total each time.
- `lost`: an edit begun over a draft, a switch of accounts, a crash before a save,
  a list that comes after the boot timer (the next selection saves the empty
  composer over the draft), and a list that moves the open position, over a text
  or over a composer a send has just emptied (`Shifted`).
- `missed`: a picture whose download failed, or that was asked for when a switch
  had closed every chat: `load_viewer_image` then starts its spinner and returns
  (media.rs:603-606), and nothing ends it.
- `crossed`: a slideshow read for an earlier tap lands last.
- `late`: a video still loading when its viewer is closed plays without one; the
  comment at media.rs:771-773 says dismissing drops it.
- `hasty`: a second click on record, or the auto-stop of an earlier recording,
  before the closure that shows the recording has run.

A chat read while it is on screen is read in memory only; after a restart its
messages count as unread again (`Reboot`). A message that came while its chat was
muted is announced by the first refire after the unmute. A voice clip is sent to
the chat that is open when the recording stops. Staged files belong to no chat, by
design (main.rs:186-189).

`window` explores ten plans (`Uses`): which operations meet in one behaviour, up
to four of them besides clock ticks; 2,635,819 distinct states. The plans split the
module along the state operations share; boot's list read, the watcher and every
worker run in all of them. `Drifting` turns the viewer's page after a switch has
closed the chat under it; `Switching` switches under two arrivals, `Silencing` mutes
and unmutes around one. Two chats are the fewest that can change places, two pictures the fewest the
viewer can move between.

| Run | Instance | Shows |
|---|---|---|
| `accounts` | two accounts, two passwords; see above | the nine invariants and action properties of `Accounts`, and its types |
| `conversation` | three messages, two accounts; see above | the eight invariants of `Messages`, and its types |
| `window` | two chats, three pictures, two videos; see above | `UnreadSettles`, `NotifiedOnce`, `DraftKept`, `PlayersBelong` |

These three state no fairness: what must finally happen is stated as what holds
when nothing is under way, and tokio and the event loop run what is ready. Deadlock
checking is off in all of them: with the bounds spent the program rests.

## Findings

Each is a run TLC refutes, against a comment of the code; PROJECT.json quotes
both sides.

1. `stranded`: the flush never runs, because its timer dies with `wire_extra`.
2. `outage_panics`: a failed send panics in `relay_health` on the worker,
   poisons `backend_cell` and is never reported.
3. `id_reuse`: a new process overwrites the durable entry of the last one.
4. `stale_chats`: a snapshot of the account that was left fills `group_ids`.
5. `wrong_slot`: a pin between a selection and its closure makes the closure
   write one chat's rows into the position of another.

## Proofs

Eight modules hold theorems; `PROJECT.json` lists them. Every one is about the
specification TLC runs, for every value of its constants, from the assumption of
its module on those alone (types; `AccountsConstantsOK`, `MessagesConstantsOK`,
and so on), and TLC evaluates these in the runs. Each proof has one inductive
invariant, which was model-checked on small instances before it was proved.

**SendQueue.** `Retained` is not inductive alone: an acknowledgement deletes the
file named by the id it carries, and only `Provenance` says that this id is its
message's and that the message was sent. `Provenance` in turn needs that a message
is given an id once (`QueuedComposed`, `GathersFirst`, `SpawnsFirst`), since a
second one would orphan what carries the first. The argument: names are never
taken back (`Monotone`); an entry leaves the disk in six ways (`EntryRemovers`);
in each, either another message has the id (`Reused`), the message was sent,
another one with its body was (`Twin`), or the entry is recorded as discarded
(`EntryStays`).

The second half adds that a message which owns its id is in the hands of one carrier
at a time, task, posted closure, or entry waiting for the flush (`QueueInv`).
`BubbleBacked` and `AtMostOnceForText` follow: a second publish needs a second
carrier, and each way to get one is one of the four named gaps. Two results hold
in part of the behaviours only, and say so in their statements:

- `MarksLifted` (`InflightBacked`) has no restart and no switch (`Steady`). After
  either, a replay whose chat is no longer listed returns before it dispatches,
  and its mark stays for the session.
- `OutboxRefined` is about one process (`OneLife`) with room on disk and distinct
  bodies. A new process hands ids out again, so one message's acknowledgement
  deletes another's file; a full disk leaves a message unfiled; of two messages
  with one body the dedup lets go of the second undelivered. `Outbox` allows none
  of these, and each is a hazard or a finding above.

**ChatView.** `Settled` has five parts. `Told`: the types and parallel lists
(`Core`), and that records, tasks, reports, overlay and acknowledgements speak of
one message each and agree with the rows, from which `OneRowEach` follows.
`Placed`: while no chat has moved (`~moved`), whatever was read, watched or posted
for a position is for the chat that is there; without it a closure could rebuild
the wrong rows, which is what `wrong_slot` shows once a chat has moved.
`PendingShown` is inductive next to those. `Expected`: once a chat was selected the
watcher is at the open position, or a selection of that position is being read or
posted and will put it there. `Complete`: every record of the watched chat is
shown, missed, reported, or in a posted echo. `KeepsOpen` needs the lists alone:
only a selection, an archiving and a refresh may change which chat is open, as its
statement says. `Chats` is assumed finite, or a position need not exist for each.

**Accounts.** `AccountsInv` is the types, that what tasks and closures carry
refers to vaults of this process (`Refers`), the counting of added accounts
(`Tallied`), one backup at a time, the spinners, and `Calm` while `~behind`: which
writers may run next to which login. Without `Calm` none of the properties is
inductive, since any write re-seals the whole map of the object it was made from;
with it, a map that is written last is shown to hold what the file held, or the
property's own exception is set. `KeysSurvive` and `RestoreKeepsIdentity` are
step properties and follow from the same invariant.

**Messages.** `MessagesInv` has ten parts beyond the types. The rows are of filed
messages, one each (`Listing`); until the user edits or deletes, no operation, overlay or
record does in the user's name (`NoEdits`, `NoDeletes`), so the records peers file
about the user's messages never take effect; a slot of the overlay has one
operation (`OverlayBacked`, `Uncrossed`); a key is with one
tap or one load (`Downloads`); a hidden message that still shows has a rebuild or
a completion on its way that will take it out (`HiddenGoing`); what the overlay
holds is on the row (`OptimisticShown`).

`SettlingInv` extends it for `RowsSettle` and `CellsSettle`, which speak only of an
idle chat, so that an invariant has to say what is still to come. `Ground` is about
the whole chat: the records about a message come after it, the feed is the end of the
log, a key in flight is being fetched, and nothing is edited, reported or tapped that
is not filed. `Followed` says of a message and its position in the log, as long as it
is in the newest window: it is built, or still to be reported, or its echo is posted
(`Told`), and that echo comes before anything else about it (`EchoFirst`); its row is
there (`RowThere`) and is what its last build makes of the records, or is to be read
again (`RowBuilt`); and each record about it was seen by that build, or waits in the
feed, in a posted event or in a refresh that will see it (`Reflected`). A step does
one of five things to a row (`Touches`): nothing, or what the user did to it; note a
build for later; rebuild it; rebuild it with all others for a new watcher; or the
rows are gone. The parts are proved against these five and not against each action.
When nothing is under way only "seen" is left, and `BuildSame` says that two
snapshots which have seen all about a message make the same row.

**Window.** `WindowInv` relates what is queued for the event loop to what is
shown. `NotedSoFar`: nothing is announced beyond what is noted, nor noted beyond
what has come, so a refire cannot announce again. `LeftBelongs` and
`ComposerTrue`: in the open chat the composer is what the user left there, or was
emptied with the file holding it; `DraftKept` alone says nothing about a composer
that a list has moved. `PictureComes`: what was asked for last is still to be
picked, or is picked and shown, missed, or under way to this very position.
`FilmComes` and `MicComes` do the same for the spinner and for the order of the
posted "show" and "hide" of the recorder. `UnreadInv` is for the
counters: a chat that is not `raced` is `Right`. Its marker divides its messages
into read and unseen; a posted count was true when it was made, and the last one
posted still is unless the chat is to be counted again; so is what a list worker
has counted so far; and the counter and the badge are right as soon as none of
these is left. `Times` (nothing is dated after now) is why a message that comes
later than the marker's second is counted. The total sums a function with
`FoldSet`, about which the library proves nothing; `TotalNat` shows it to be a
number from its definition, given that `Chats` is finite.

Three of the exceptions above came out of these proofs: the emptied composer in
`Shifted`, the picture asked for with no chat open in `missed`, and the switch in
`raced`. The plans of the run had not reached any of them; `Moving`, `Drifting` and
`Switching` do. The proof for `Messages` found a fourth, the refresh that comes while
an older rebuild has its row away: it takes a peer's record, two rebuilds and
that refresh in one order, beyond the operations `conversation` allows.

**DataLemmas.** The prover cannot instantiate the library's induction theorems,
which take an operator; but well-founded minima over a concrete set (`LeastOf`)
give induction up to a bound (`UpTo`), enough for the one recursive function in a
module with proofs (`Sublist`, `SublistPicks`).

Model-checked only: `QueuedTextLeaves`, since liveness under fairness is out of the
prover's reach. Every other property of a passing run is the conclusion of a theorem,
two of them (`OutboxRefined` and `MarksLifted`) under the hypotheses named above.

## Not modelled

- Cryptography, MLS and the relay protocol: marmot, external. Its records, their
  order and its answers are inputs.
- Layout, rendering, avatars, formatting, mentions, emoji tables, log setup, the
  Slint interface: no state another part depends on.
- Profile, member and relay caches, contacts, key packages and the network panel:
  read-through copies of marmot's state, refreshed whole and shown as they are.
- Creating a group and unarchiving; the save dialog; the LRU order of the caches.
- Inline voice playback: a clip's end is reported by message id, so a late report
  can stop a restart of the same clip (media.rs:1003); nothing else depends on it.
- Appearance settings, and the notification's sound and text.
- Which account a gathered forward leaves under (forward.rs:220), and a flush after
  a switch (panes.rs:105): see the notes in PROJECT.json.
