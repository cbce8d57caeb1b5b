# DocLink in TLA+

DocLink shares files between PCs of one LAN. Every PC runs the daemon `doclinkd`
with two HTTP planes: a *data plane* for other PCs (TLS, every request signed) and
an *admin plane* on localhost for the owner's window. This directory models the
parts of the daemon that keep state, checks them with TLC on small instances, and
proves the central invariants with TLAPS for every value of the constants.

## 1. The system

| Component | State | Operations | Talks to |
|---|---|---|---|
| Grantor: pairing and grants (`server.rs`, `admin.rs`, `store.rs`) | pending requests, remembered decisions (memory only); grants (memory and `doclink-grants.json`) | `pair_request`, `decide_request`, `revoke_grant`, `update_grant`, `share_item`, expiry sweeper, `pair_status`, `require_auth` | requester (push, poll), owner's UI, event feed |
| Freshness of signed requests (`auth.rs`) | signatures seen (memory only) | `verify_signed_headers`, `reject_replays` | every data-plane handler |
| Requester (`admin.rs`, `server.rs`, `store.rs`) | contacts (memory and `doclink-contacts.json`) | `add_contact`, `remove_contact`, `pair_decision`, `run_pair_verifier` | grantor |
| Inbox (`inbox.rs`) | files, temp files and sidecars on disk | `upload`, `inbox_accept`, `inbox_discard` | share folder, event feed |
| Scopes and item sharing (`server.rs`, `admin.rs`, `share.rs`) | `Grant.paths`, the share's tree | `list`, `file`, `share_item`, `update_grant`, `myshare_delete` | grants store |
| Event feed and toast poller (`events.rs`, `doclink-win`) | ring of events; cursor in memory and in a file | `push`, `since`, poll loop | all producers, window shell |
| Peer registry and keepalive (`discovery.rs`, `main.rs`, `scan.rs`, `peer.rs`) | peers with last-seen times | browse, probe, expire, `peer_lookup`, `resolve_peer_base` | mDNS, everything that looks a peer up |
| Rate limiter (`server.rs`) | counters per address | `allow` | pairing endpoints |
| Search (`server.rs`, `proxy.rs`, `admin.rs`) | none (budgeted walk) | `search`, `search_all` | peers |
| Local printing (`local_print.rs`) | a token with a deadline, in memory and in its file | `print_via_local`, `ensure_paired`, `submit_job` | PrintLink |
| Updater (`updater.rs`) | lifecycle state, stage folder, installed programs | check loop, `update_check`, `apply_update`, swap script | GitHub, PowerShell, UI |
| Settings (`config.rs`, `admin.rs`) | `doclink.toml`, switches | `get_settings`, `put_settings` | advertiser, update loop, UI |
| Window shell (`doclink-win`) | the daemon's process handle | `ensure_daemon`, `quit` | daemon |
| Identity, certificates, TLS, proxy, web UI, installer | keys, none | cryptography, I/O, presentation | |

What is hard here: handlers run concurrently on a thread pool and take several
short locks one after the other; every store is changed in memory first and saved
afterwards, and the save may fail; the daemon restarts and forgets half of its
state; two PCs agree on a pairing by an answer, a push and a poll, each of which
can be lost or late; the inbox works on the file system without any lock; the
owner's item sharing reads, awaits and then writes. `PROJECT.json` lists these
hazards line by line.

What makes each component correct:

* Grantor: the owner's word holds. What was acknowledged stays, in memory and on
  disk; nobody gets access that was not approved; queues stay bounded.
* Freshness: an accepted request is not accepted again.
* Pairing: the requester's row shows what was decided, and eventually does.
* Inbox: an acknowledged file is kept whole and names its sender.
* Scopes: taking an item away hides it, widens nothing, and keeps the rest.
* Feed: an event is shown once, in order, and is shown; requests and lapsing grants are announced.
* Search: hits lie in the scope, and within the bounds nothing is missed.
* Discovery: a contact that is there stays listed and is reached; one that is gone leaves.
* Printing: a job comes out once; the owner is asked to pair only when the token is due.
* Settings, shell, updater: the visibility the owner chose holds; versions never go back; an
  update takes effect; no daemon is left behind.

## 2. Modules

| Module | Models | Lines of argument |
|---|---|---|
| `Access` | who may come in, abstractly | implemented by `Grantor`: run `grantor`, proof in `PairingProofs` |
| `Grantor` | the grantor's side | run `grantor`, proofs in `PairingProofs` |
| `ReplayCache` | the freshness checks | run `replay`, proofs in `ReplayCacheProofs` |
| `PairSync` (EXTENDS `Grantor`) | grantor and requester together | run `pair_sync`, proofs in `PairingProofs` |
| `Inbox` | the drop folder, one file system call per step | run `inbox`, proofs in `InboxProofs` |
| `EventFeed` | event ring and toast poller | run `event_feed`, proofs in `NoticesProofs` |
| `Notices` (EXTENDS `EventFeed`) | what is announced through the ring | run `event_feed`, proofs in `NoticesProofs` |
| `ShareScope` | scopes and item sharing | run `share_scope`, proofs in `SearchProofs` |
| `Search` (EXTENDS `ShareScope`) | search and its fallback while scopes change | run `share_scope`, proofs in `SearchProofs` |
| `Calendar`, `LocalPrint` (EXTENDS it) | date arithmetic; print jobs and the PrintLink token | run `local_print`, proofs in `LocalPrintProofs` |
| `Discovery` | peer registry, browser, keepalive, calls to a contact | run `discovery`, proofs in `DiscoveryProofs` |
| `Settings`, `Launcher`, `Updater` (each EXTENDS the one before) | switches and their file; windows and the daemon they start; checks, applies and the swap script | run `updater`, proofs in `UpdaterProofs` |
| `MC*` | constants and symmetry for TLC | |

**Grantor.** One action per critical section. `pair_request` is `ReqCheckGrant`
(the grants lock) and `ReqAdmit` (the pending lock: prune, cap, insert); with a live
grant the handler changes nothing. `decide_request` is `DecideTake` (the entry
leaves the queue) and then `DecideDeny` or `DecideApprove`; `DecideRefused` is an
approval that allows nothing. `RevokeGrant`, `UpdateGrant` and `ShareItem` are whole
handlers, since they hold the grants lock to the end, `Sweep` is a tick of
`run_expiry_sweeper`. The parameter `ok` says whether `Store::save` succeeded: it
writes a temp file and renames it, so a failed save leaves the old file. `Restart`
reads the file and empties the rest. `told` and `unsettled` observe the owner's
answers: what he was last told about a requester, and whose last change ended in an
error. `StatusAnswer` and `AuthOutcome` are the two read-only answers.
`pair_status_lookup` takes its three locks one after the other; the model reads them
at one moment.

**Access.** Four variables: whose request is under way (`asking`), how many requests of each PC
wait for the owner's word (`asked`), who may read (`granted`), and for whom the owner was last
answered with an error (`inDoubt`). `Grantor` maps its handlers, queue and taken entries to
`asking` and `asked`, its live grants to `granted` and `unsettled` to `inDoubt`
(`Consent == INSTANCE Access WITH ...`); the sweep and the queue's bookkeeping are stutters.

**ReplayCache.** A signature is a model value with the timestamp it was signed with,
which may lie ahead of this PC's clock. `Present(s, t)` is the pass through
`verify_signed_headers` at `now` and `reject_replays` at `t`, since the code reads the
clock twice, at most `Lag` seconds apart. A refused copy renews its entry, as the
code's `insert` does.

**PairSync.** Grantor's actions, each with its effect on messages, and the
requester's contact row. `AddSend`/`RequestQueued`/`AddFinish` are `add_contact`
before, during and after the call; `push` holds decisions on their way;
`PollAsk`/`PollAnswer`/`PollApply` are one poll. Every one of these can be lost
(`AddFails`, `PushLost`, `PollLost`) and any other step can come in between.
`listed` says whether the requester's mDNS registry has the grantor, which comes and goes freely and is empty after a
restart: the verifier polls nobody else, so a contact that was reached by its host alone never catches up.
`verdicts` observes what the owner ever decided.

**Inbox.** Files are objects and directories map names to them, so that two writers
of one temp file write the same object, also after it was renamed. A `write` is an
open that truncates (`PartOpen`) and the bytes (`PartFill`). `overlap` observes base names
on which two calls worked on the same directory entry at once: for these the code
guarantees nothing (run `inbox_clash`), for all others `NothingLost` and `WholeFiles`
hold even when calls are cut off. A handler that is dropped when its caller hangs up does not take its last
file system call with it: that call goes on on tokio's blocking pool (`UpGoes`, `OpGoes`), and a retry that meets it
is an `overlap` like any other. `cross` says whether inbox and share are on
different volumes; a rename across them fails with the code `accept` expects, and the bytes are copied, or with
another one, and so does the call (on Windows it is another one: see `PROJECT.json`, "findings"). A copy across
volumes is one step, and `tokio::fs::copy` reports an error when its source has gone. Names are base names with
numbers: at most one in the inbox (`InName`), where senders' names arrive, and one more in the share (`Name`). The
code tries numbers without end; the model tries `MaxCopy` of them, and a call that would need more does not start
(`HasFree`).

**EventFeed.** Event ids start over with every daemon; `serial` tells events apart
for the properties. `PollAsk` asks the daemon, `PollPrime` and `PollShow` are the two
ways the poller handles the answer, `ShellDies` cuts the second one short. A poll that
finds the daemon down changes nothing and is left out. Events pushed before the shell's
first poll of a daemon are not `due`: the shell adopts them silently by design. `save_cursor` drops its errors:
the file may keep the old cursor or be left empty (`SaveCursor`), and a shell that starts from an older cursor than its
predecessor's last toast (`behind`) shows toasts again. There is one card and no queue behind it: of the toasts of one
poll only the last stays, the others are `gone` (`Draw`). The card is taken to exist; without one (`Toasts::create` may
fail) the shell shows nothing at all.

**ShareScope.** A path is the sequence of its components, a scope the set of its
paths (the code's list, in which order and repetition mean nothing). The recursion of
`walk` follows the item's ancestors, so it is a recursive function of the depth. The
three phases of `share_item` are `ShareItemStart`, one `ShareItemList` per folder and
`ShareItemApply`. A failed listing counts as an empty folder in the code, whether the folder has gone
(`ShareItemList`) or cannot be read (`ShareItemListFails`); a comment says otherwise, see the findings. `Delete`
removes a folder in one step. `moved` observes that a grant changed during a call, `unsure` that the share did or
that a listing failed; they bound what the properties promise.

**Notices.** `pair_request` in its four steps (grants, look, admit, push) for overlapping calls of
one requester, and the sweeper's warn-then-prune with `claim_expiry`. The shell never influences the
producers, so a behaviour has a *scene* that bounds one side tightly while the other runs. An entry that
leaves the queue between a call's look and its admit is queued again without a notice (`raced`);
`PendingIsAnnounced` promises nothing then. Time is counted in intervals of the sweeper; the clock may go on past
several of them without a tick, because the PC sleeps (`Tick`) or the daemon is off (`Restart`). `missed` collects these, and
`NoSilentLapse` promises nothing about a grant whose whole last day is in it: the first sweep afterwards prunes it
without a warning.

**Search.** `walk` is one search in progress, a folder per step. `search` takes scope and roots when
it begins; `search_fallback` asks for listings under the scope of the moment and lists the root twice,
as the code does. Every step of `ShareScope` can come between two steps of a walk (`Change`), those of a
`share_item` call included, and a folder on the way may be unreadable (`WalkMisses`); `Meddle` adds what the observations make of it: `must`, the matching files that
stayed, and stayed readable, from the beginning to the end, and `scopes`, the scopes a walk has met. A behaviour
has a *scene* here too: which of items, scopes, files and searches it is about, and how many changes may fall
into one walk.

**LocalPrint.** `print_via_local` step by step for two jobs: the fast path of `ensure_paired`, the
loop over the ports (list, request a share, store), the loop of `submit_job` (challenge, post). PrintLink is
external: an installation (certificate) serves a port or not, hands out tokens, honours, revokes or
outlives them, and its answer may be lost after it printed. Sending, printing and answering are one step
(`Post`): a daemon that stops in between, or drops the handler, leaves the sheets of a lost answer and nobody to be told.
`Calendar` has `days_since_epoch` beside the
Gregorian calendar it has to agree with (`NextDate`, and `DayNumber` in closed form); the clock's day is the
number of today's date, and a token's deadline goes through both. `clean` observes whether anything went wrong
outside while a job ran. Another job's pairing that changes the stored pin counts as such for the jobs still
going round the ports: see the findings below.

**Discovery.** One contact, one other PC, two addresses. mDNS is external and modelled as the comments in
`discovery.rs` describe it: a record is reported when it appears or changes, not when it is repeated.
Time is the age of the registry entry in keepalive intervals; `Slack` is how long a round may take. A call
goes through `peer_lookup` and ends with the check of the certificate that answered against the contact's
fingerprint. For a PC being added it goes through `resolve_peer_base`, and nothing ties the ID that the PC
names to its certificate (`ContactFingerprint`; the scan does look): another one may pass for it, which
`CallGetsThrough` excepts.

**Settings, Launcher, Updater.** `put_settings` is five steps (load, mDNS, store, second switch, snapshot
and write), since nothing locks them together; `std::fs::write` truncates before it writes. The UI's two
switches are modelled as `app.js` sends them. `Launcher` has one window at a time, which may quit or be killed,
the daemon it spawned and the wait of 15 s after which the handle is lost; `lost` observes that no window has
the handle of the daemon that runs. `Updater` has the shared `State`, GitHub's latest release,
the archive and stage folder (named after the process id), and the detached script step by step. One timing
assumption: an apply in a new daemon has not finished its download while the script of the daemon before it,
which takes some 3 s, still runs (`ApplyDownloaded`). The script's kill and its copies may fail, and it goes on; a copy that fails is
taken to leave the old program as it was. `parted` observes that switch and registration may have parted, because
settings calls of this daemon overlapped or a goodbye failed; `clean` that an apply met nothing else and no command of
its script failed: two programs may be left of different versions only otherwise, and only then may a window be
replaced by an older one.

## 3. Runs

| Run | Verdict | Question |
|---|---|---|
| `grantor` | pass | Does the owner's word hold through interleaved handlers, failed saves, expiry and restarts, and is every step one `Access` allows? |
| `grantor_status` | violation | Does a live grant always answer "approved"? No: an older denial outranks it. |
| `replay` | pass | Is a request stamped behind the receiver's clock accepted once? |
| `pair_sync` | pass | Does the contact row follow the owner's decisions, and only them? |
| `inbox` | pass | Are acknowledged files kept whole, with their sender, when calls fail? |
| `inbox_clash` | violation | Are colliding uploads both kept? No, not when they run at the same time. |
| `event_feed` | pass | Is every event shown, once and in order, and is the owner told of requests and lapsing grants? |
| `event_restart` | violation | Does the feed resume after a daemon restart? No: the cursor is ahead of the new ids. |
| `share_scope` | pass | Does unsharing hide the item, widen nothing and keep the rest? Does a search stay in its scope and miss nothing? |
| `local_print` | pass | Does a job come out once, and fail or ask for pairing only for a reason? |
| `discovery` | pass | Is a contact that is there listed and reached, and one that is gone dropped? |
| `updater` | pass | Do settings hold, do updates take effect and never go back, is the daemon stopped? |

Each violation is a statement of the repository's own docs or comments that the code
does not keep; `PROJECT.json`, "findings", quotes it. Further disagreements found while
modelling have no run of their own; among them two that the models show at once: an edit that
`update_grant` rejects stays in memory (`UpdateGrant`), and a signature stamped ahead of the receiver's
clock outlives its cache entry (which is why `PastStampsOnce` is about past stamps). Three more came out of the
proofs, as a step that did not preserve its invariant: overlapping `put_settings` calls can leave the switch
off and the PC registered, and a later call to hide it finds nothing to change (`WishKept`, two overlapping calls and
two later ones); a third job that pairs again while two others go round the ports pins another installation,
and one of them fails without any agent having changed (`FailureHasACause`, three jobs); and two swap scripts
over a stage that a third apply still fills can install an older daemon (`NeverOlder`, three applies). The
properties name these exceptions, so that everything else is still promised.

The type invariants `TypeOK`, `SyncTypeOK` and `SearchOK` are properties of `grantor`, `pair_sync` and
`share_scope`. Those of the other modules say what each variable may hold and hold on the same
instances (add them to the cfg to see it); all of them are proved.

### Bounds

* `grantor` (355,102 states): two requesters, because the queue caps and the cross-effects of saves need
  two. Caps of one make every insertion meet its limit; TTL, duration and clock of one
  second let a request and a grant lapse, and let both sides of a deadline be seen. One permission
  is enough for an edit that leaves none. `Self` is a third key of the decisions map, so that
  eviction has a choice.
* `replay`: a window of 2, stamps up to 4 and a clock to 8 reach the end of the latest
  stamp's window (6) and of a cache entry written in it; with `Lag = 1` the two readings of
  the clock may differ.
* `pair_sync`: one requester, since rows of different requesters share nothing but the
  caps that `grantor` checks. Grants do not expire there (`Durations = {0}`): the clock multiplies
  the states and the row never looks at it. The 429 answer cannot occur with one requester; its
  effect on the row is that of `AddFails`.
* `inbox`: two uploads and two owner calls on one name, so that all of them can meet; two
  numbered variants are more than two uploads need. Three uploads have been checked as well
  (4.6 million states).
* `event_feed`: a ring of two and four events, so that it overflows; one daemon restart. The scenes:
  a polling shell with free events; a polling shell with one requester; two overlapping calls without a shell; one
  requester with four intervals of time, enough for a grant of three to be warned of, renewed and to lapse, with a
  warning period of two intervals of which one or both may be missed (781,266 states in all). A shell starts from an
  older cursor once.
* `share_scope`: a folder in a folder, with a file beside the way on each level, and hand-set
  scopes that are full, a covering folder, exact paths, and a folder with a path inside it. Three scenes
  (1.4 million states): items, scopes and files without searches; searches with two changes of scopes or files in one
  walk; searches while `share_item` runs, which may apply once in a walk. The visit budget of 3 and the cap of 3 are
  both met.
* `local_print`: two jobs, two ports, two installations, two tokens of one day; the days are those around
  the end of February 2024 and of February 2100, which has no 29th. One change of the agents. Three jobs with
  four tokens, without changes or days, have been checked as well (4.5 million states): they are the least
  in which a pin changes under a job in progress.
* `discovery`: two addresses; an entry lives three intervals and a round takes at most one more than its own, the
  longest round the assumption `2 * Slack + 1 <= Ttl` allows (15 s intervals, 2 s per probe).
* `updater`: releases whose order as text differs from their order as versions, an older one, one without
  an archive, one that is no version; the first is taken back for an older one or followed by a newer one.
  A behaviour draws one of three budgets (`left`): two settings calls and a fault; two applies with a new
  release; an apply with a check and two faults. Four settings calls and three applies, which the exceptions
  above take, are beyond the run; the proofs cover any number of both.

### Fairness

`PairSync`: the verifier's interval fires as long as the daemon runs (weak fairness of
`PollAsk`), for contacts in the registry; that a grantor ever gets there is not assumed, and `NotStuckPending`
is about those that are there. The network is assumed not to lose every poll and the requester not to restart in
the middle of each (strong fairness of answering and applying): without that no poller could
catch up. The push gets no fairness: nobody repeats it.
`EventFeed`: the poller loops for ever (weak fairness of `PollAsk`) and the shell is not closed
during every poll (strong fairness of handling the answer). Producers and restarts get none.
`Discovery`: mDNS repeats itself and its records end; browser and keepalive loop for ever and time passes (weak
fairness), and the daemon is not restarted every time before the browser, which looks five times a second,
has taken an event (strong fairness of `Browse`). Calls, moves and restarts get none.
`Updater`: a started program gets to run, the check loop ticks and GitHub's answer or its timeout comes, and
PowerShell and the script go on (weak fairness each). Clicks, faults and releases get none.

### Deadlock

All runs but two check it: where a bound stops everything else, a restart or a poll is always possible.
`local_print` and `updater` end when their jobs, or the budget of owner and faults, are used up, as the
system does when nobody asks for anything.

## 4. Proofs

Eight modules hold theorems for every value of the constants: `PairingProofs` (`Grantor`, `Access`,
`PairSync`), `ReplayCacheProofs`, `NoticesProofs`, `DiscoveryProofs`, `UpdaterProofs`, `LocalPrintProofs`,
`InboxProofs` and `SearchProofs` (`ShareScope`, `Search`).
They rest on the named assumptions of the modules they are about, which TLC evaluates in the runs: counts and times are naturals; the set of requesters is finite; the decisions map, the event ring and
the browser's queue have room for one entry; the full scope is a scope; uploads, owner's calls and base names
are different things; the parent of a path is a folder, and `NO_ACCESS` has one component and is no path;
`Order` has every path; `NONE` is none of the values it stands beside. Three assumptions say something about the code's numbers:

* `DiscoveryAssumption`: a registry entry outlives two keepalive rounds (`2 * Slack + 1 <= Ttl`; 300 s against
  15 s and probes of 2 s);
* `UpdaterAssumption`: a tag is a sequence of numbers and parts that are none, as `split` and `parse` leave it;
* `PrintAssumption`: the dates stay within 2100, where `days_since_epoch` ends.

* **GrantorTypeCorrect**: `TypeOK`, one step per action; `RememberDecision` has a lemma of its
  own because its eviction is an existential.
* **OwnerTold**: `OwnerToldTruth` is inductive together with `TypeOK`. Memory and file may
  differ for a requester only after an error (`unsettled`), or when the sweep could not be
  saved, which the clause about lapsed grants allows: the deadline stays passed because the clock does
  not go back.
* **AccessIsTheOwners**: the action property follows from `OwnerToldTruth`: a restart can bring a
  live grant back only if the file differs from memory, hence only for an unsettled requester.
* **QueuesBounded**: needs cardinalities of the queue with an entry added or exchanged; the
  lemmas on finite sets come from `FiniteSetTheorems`.
* **ApprovedIsUsable**: not inductive as it stands. The strengthening `OnlyDenials` says that
  the map remembers nothing but denials for *other* PCs, so that "approved" can come from a live
  grant only; the approvals in the map are about this PC's own requests.
* **GrantorImplementsAccess**: `Spec => ImplementsAccess`. One lemma per kind of step says which step of
  `Access` it is; those that leave queue, calls and live grants alone are stutters (`SameLive`, `SameAsked`,
  `SameAskers`). Two steps need more than their own definition: a restart is a `Reboot` only because of
  `OwnerToldTruth` (the file agrees with memory about everyone not in doubt), and an admission counts one
  request more after those that lapsed.
* **PastStampsAcceptedOnce**: the strengthening `CacheInv` relates a cache entry to the first
  acceptance: an entry is never older than it, and once no entry is left more than `MaxSkew`
  seconds have passed since, so that a stamp at least `Lag` seconds older than that acceptance has
  left the window.

* **SyncImplementsGrantor**: `SyncSpec => Spec`: the grantor's part of every step of two PCs is a step of
  `Grantor` (`GrantorSteps`), so that its theorems hold in the composition as they stand.
* **SyncTypeCorrect**, **OutcomesAreTheOwners**: `OutcomeWasDecided` looks at the row only. `SyncInv` adds what
  a row can come to hold: live grants and grants on disk go back to an approval (`Backed`), the decisions map
  tells requesters of denials only (`OnlyDenials`), and so every answer, push and poll under way carries an outcome
  the owner chose (`Carried`).
* **RemovedRowsStayRemoved**: the action property, one step per writer of the row: each looks whether there is a
  row before it writes, and `add_contact` alone makes one.
* **ToastsOnceInOrder**: `FeedInv` has three parts. `RingInv`: ids in the ring are consecutive and end just
  below `next_id`, and serials increase with them. `ReplyInv`: a reply holds events of the ring above the cursor it was asked with
  (`since` is a suffix of the ring because the ids are consecutive). `ShownInv`: what was shown is ordered and lies below
  whatever the poller can still show, in the daemon's life and after it. The file may be behind the cursor: a shell that
  starts is at its predecessor's last toast, has no base line and adopts a tip that lies beyond all toasts, or is `behind`.
* **PendingAnnounced**: `RaceInv`: a call that saw the request in the queue and now finds it gone was
  overtaken (`raced`); any other call that queues it is one that will push its notice.
* **LapsesAreAnnounced**: `WarnedInv`: the owner has been warned of a grant, or every interval of its last day
  so far, after the one in which it was given, went by without a tick; a tick on that day warns or finds that it has warned.
* **SteadyListed**: the age of an entry is bounded by the phase of the round (`AgeBound`): at the start of a
  round it is at most what the last one took, and it grows by the time this one takes.
* **CallsGetThrough**: `CalmInv`: a call during which nothing moved holds the address the contact is at, and
  only a PC that is being added is asked for its ID.
* **ChoiceIsKept**: `WishInv` says what a call that nothing overlapped has done so far (`LoneCall`) and that while a
  choice stands only the update box's calls are under way, which send it back as they read it (`Standing`).
* **DaemonGoesWithItsWindow**: `ShellInv` adds that an open window holds the handle of a running daemon, unless the
  handle is lost.
* **UpdatesGoForward**, **HalvesStayTogether**, **ProgressStandsForAnApply**: `SwapInv` carries `version_gt`'s
  outcome from the check through download, archive, stage and script to the copy; `CleanInv` keeps the halves of
  an undisturbed apply's stage of one archive. Both look at a few variables, and a first lemma says how each
  step can change these.
* **DaysCountTheCalendar**: `days_since_epoch` counts `n` for the date `n` days after 1970-01-01, by
  induction over `n`: one step within a month, one at a month's end, one at a year's.
* **TokensOfPinnedAgents**, **JobsComeOutOnce**, **FailuresHaveACause**, **PairingsAreDue**: `PrintInv`. Its
  parts say of a token that the pinned installation issued it with the deadline on it (`TokensInv`), of a job
  how many sheets it may have left by now (`SheetsInv`), and of a job that nothing went wrong around that the
  port of its token's installation is still ahead of it (`CauseInv`). `PairingsAreDue` uses
  **DaysCountTheCalendar**: `is_expired` compares the days the two dates count for.
* **FilesAreWhole**, **UploadsAreKept**, **SendersAreTrue**: any number of uploads, calls and names, any of them
  cut off at any step, with the last file system call of a dropped one still to come. All three are about names that no two calls met on, so the invariant `Core` has to say that
  the calls which did meet do no harm elsewhere. `HomeInv`: nothing leaves its base name, neither a directory entry nor an
  open file nor a byte, so that a mixed-up file stays with its name. `TempInv`: a temp file is nobody else's file, so that
  a late writer does not write into a payload. `AloneInv`: calls on one entry have met. On this ground
  `UploadInv` and `OpInv` say what an undisturbed call has written and has in hand at each of its steps.
  `SideInv` adds that a sidecar goes with its file or is about to be dropped by the call that took the file, and
  that a name an upload has chosen has none.
* **ListingAgrees**: a path that covers a file, or lies above it, is one of the file's prefixes (`WithinPrefix`,
  `OnTheWay`), and the prefixes of a path are folders (`PathPrefix`, by induction over the length).
* **UnsharingNeverWidens**, **UnsharingKeepsTheRest**, **HiddenStays**: `Walk` is a recursive function; `Beside`
  says without recursion what it collects (`WalkIsBeside`, by induction from the item upwards). From there on it is about
  prefixes: what lies beside the way is below the path the walk began at (nothing widens), never above the item
  (it is hidden), and a file that is not below the item leaves the way at some depth, where it, or a folder around it,
  lies beside (`Fork`: the rest is kept). `ScopeInv` says what `share_item` knows between its phases: the listings are of
  the folders it asked for (`ListingsOfTheWay`), they show the share as it is while nothing came or went
  (`ListingsFresh`), and if there are none, nobody who is to lose the item could read it, unless a grant changed
  meanwhile (`ListingsNotNeeded`).
* **SearchImplementsShareScope**: `SearchSpec => Spec`: a walk reads scopes and files and writes neither, so that
  the theorems about `ShareScope` hold while searches run.
* **SearchTypeCorrect**, **SearchStaysInScope**, **SearchFindsEverything**: `WalkInv` looks at the folders still to
  come. The server's walk keeps to folders its scope covers (`KeepsToScope`); the fallback has met the scope of
  the moment, in which everything it must find can be read (`MeetsScope`), so that by the argument of
  **ListingAgrees** the listings show the next folder on the way; and a file that must be found has been found, or a
  folder on the way to it is still to come, unless a bound cut the walk (`StillToCome`). What a sequence filtered by
  `Pick` contains is an induction over its length (`PickFacts`).
* The type theorems (**ScopeTypeCorrect**, **InboxTypeCorrect**, **ReplayTypeCorrect**, **DiscoveryTypeCorrect**, **NoticesTypeCorrect**,
  **UpdaterTypeCorrect**, **PrintTypeCorrect**) are what all of these start from.

The prover has no induction rule for a predicate, but a set will do: a set of naturals that holds 0 and is closed
under successor is `Nat`, because `<` is well founded (`NatSetInduction`). A recursive function exists because its
first `n` values do, for every `n`, by the same rule.

Assumptions of the models themselves: the clock does not go back; a restart is one of the
process, so that a completed rename is on disk; a node id stands for its key and fingerprint
(the code derives it from them and checks, except while a PC is added, which `Discovery` models); signatures cannot be forged; the owner decides
"approve" or "deny"; one `pair_request` handler per requester is in flight at a time (`Notices` has
two); the shell has a toast card; one window and one daemon per PC.

Only model-checked: the liveness properties (`NotStuckPending`, `EventIsShown`, `ShownIsListed`, `GoneIsDropped`,
`UpdateTakesEffect`, `CheckingEnds`), since fairness and ENABLED are outside the prover's reach. Every invariant and
every action property of a passing run is stated by a theorem. The inductive invariants were checked with TLC on
the runs' instances before they were proved.

## 5. Not modelled

Cryptography, TLS and certificates (a PC is whoever its certificate says); mDNS as a protocol; HTTP
streaming, ranges and the bodies the proxy forwards, which keep no state; path canonicalisation; the rate
limiter, one critical section that nothing else reads; names, sizes and texts; a second window or a second daemon
on one PC (`--port`); the looks of the toast card, the web UI apart from its settings switches, and the installer. Listed with
reasons in `PROJECT.json`.

## 6. Plan

1. *Done*: the modules of section 2 with their runs, the refinement of `Access` by `Grantor`, of `Grantor` by
   `PairSync` and of `ShareScope` by `Search`; proofs of every invariant and action property the passing runs check.
2. *Left*: the parts of section 5, and the hazards of `PROJECT.json` that no property covers yet.
