# A model of AMail

AMail moves files between the nodes of a small network. A user drops a file
into `outbox/<to>/`; the node sends it straight to its destination, or hands
it to the node that currently acts as server, which holds it until the
destination pulls it. These modules model that machinery as TLA+ state
machines, check it with TLC on small networks, and prove the central results
for networks of any size with TLAPS.

## The system and its parts

| Component | State it keeps | Operations | Hard behaviour | What makes it correct |
|---|---|---|---|---|
| Delivery (`internal/node/node.go`, `client.go`) | role and server; in-flight set of paths; everything else is files | `tick` = `deliverOutbox`, `deliverHeld`, `pull`; handlers `handleDeliver`, `handlePull`/`pushItem` | one loop and many handlers on the same folders, lost replies, crashes, restarts in place | no file lost, replies true, no needless copies, files come to rest |
| Mailbox (`internal/mailbox`) | the folders `outbox`, `inbox`, `forward`, `sent`, `failed`; cached usage | `Receive`, `Hold`, `HoldFile`, `MarkSent`, `Fail`, `Remove`, `Enqueue`, `Drop`, `Delete`, listings | two writers choosing one name; file and sidecar in two steps; pruning; a usage count refreshed now and then | nothing overwritten, a held file keeps its proof, the cap holds |
| Election (`node.go discover`) | role, leader | status requests, `discover` | every node sees a different part of the network | agreement and fail-over |
| Limiter (`limits.go`, `idle.go`) | open connections in all and per address, strikes per minute | `admit`/release, `strike`, `request` | concurrent release and admission, window boundaries | counts never drift, members are not locked out |
| Revocation (`node.go`, `config.go`, commands) | revoked serials in memory and in `config.json` | gossip in every exchange, `learnRevoked`, revoke commands | several writers rewrite one file | a serial once revoked stays revoked and spreads |
| Configuration (`internal/config`) | white- and blacklist, limits | load, normalise, save, edit | read-modify-write by several processes | no update lost |
| Wire protocol (`internal/proto`) | none between frames | frame a header and a body | - | - |
| Keys (`internal/keys`) | CA and node keys on disk | issue, install, load, sign, verify | - | a proof covers origin, destination, name, size and hash |
| Processor (`internal/processor`) | `seen` set and state file | `Once`, `handle`, `reply` | crash between remembering and replying | no command runs twice |
| Gateway (`internal/gateway`) | `seen` set and state file | `inboundOnce`, `emailOnce` | crash between sending and remembering, passing errors | nothing sent twice, nothing forgotten |
| Web interface (`internal/ui`) | none of its own | send, delete, settings, restart | runs beside the node on the same files | - |
| Command line (`cmd/amail`) | none of its own | `run` with restart in place, one-shot commands | restart while handlers still run | - |

The parts meet in three ways: nodes exchange requests over TLS (`status`,
`peers`, `deliver`, `pull`), all parts of one machine share the mailbox
folders and `config.json`, and saving the settings in the web interface asks
`cmdRun` for a restart in place.

## Modules

| Module | What it is |
|---|---|
| `Mail` | The promise: each file travels, then arrives or is refused; it is never gone. |
| `Relay` | The network of nodes in detail, composed of folders, loops, handlers and connections. |
| `MCRelay` | Small networks for TLC. |
| `Relay_proofs` | The theorems about `Relay`: nothing is lost, and `Mail` is implemented. |
| `RelayOnce_proofs` | More of them: nothing is sent or delivered twice by itself. |
| `Forward` | One folder of held files, file-system call by file-system call. |
| `MCForward` | A folder with the loop and a pull handler for TLC. |
| `Forward_proofs` | The theorems about `Forward`. |
| `Bridge` | The e-mail gateway and the command processor, each on its side of AMail. |
| `MCBridge` | A gateway and a processor with two e-mails for TLC. |
| `Bridge_proofs` | The theorems about `Bridge`. |
| `Settings` | `config.json` of one home directory and everyone who rewrites it. |
| `MCSettings` | A form, a command and a node for TLC. |
| `Settings_proofs` | The theorems about `Settings`. |
| `Membership` | Which node is server and which certificates are refused: discovery and gossip. |
| `MCMembership` | Three nodes with one list for TLC. |
| `Membership_proofs` | The theorems about `Membership`. |
| `Inbound` | What a node takes in: the limiter on connections, the cap on the mailbox. |
| `MCInbound` | Three connections and a pull for TLC. |
| `Inbound_proofs` | The theorems about `Inbound`. |

`Relay` leaves open who is server and whether a connection is refused or a
mailbox full. `Membership` and `Inbound` say when that happens; what `Relay`
shows holds whatever they decide. `Settings` is the file they read their
constants and their revoked serials from.

### Relay

| In `Relay` | In the code |
|---|---|
| `outbox`, `forward`, `inbox`, `failed` | the folders; `sent/` is not read by anyone and is left out |
| an `Item`: file, slot, hops, from, proof | what a listing finds: `Item` with the contents of its sidecar. Slot 0 is the outbox, slot 1 the plain name in `forward/`, slot k the variant `name (k)` |
| `leader` | `role` and `leader`: itself is "server", another node "client", `None` "searching" |
| `loop` | the delivery loop of each node and where it is within `route`: trying the destination, waiting for its reply, trying the server, waiting for its reply |
| `wire` | deliveries, pulls and local copies under way; `claim` says whether the sender still waits and still has the path in its in-flight set |
| `Discover` | `discover`, with any outcome `Leaders` allows |
| `Route`, `RouteFatal`, `DeliverToSelf` | the loop takes up an item (`deliverOutbox`, `deliverHeld`, first half of `route`) |
| `Unavailable`, `Refused`, `Send`, `HoldOwn`, `Keep` | the rest of `route`, with `Client.Deliver` and `finish` |
| `Pull`, `PullRefused` | `pull` with `Client.Pull`; `handlePull` with `pushItem` |
| `Store`, `Place`, `WriteSidecar`, `SidecarFails`, `NoRoom` | `handleDeliver` after the body, `Receive` and `Hold`; renaming the file into place and writing its sidecar are two steps, as in the code |
| `Ack` | the reply arrives: `Remove` or `MarkSent` |
| `Break`, `Discard`, `Crash`, `RestartInPlace` | a dead connection, its end at the receiver, the end of a process, `cmdRun` after saved settings |

Abstractions. Files have distinct names and their content does not change on
the way; a proof is there or not, and covers the plain name only (`Genuine`).
A check of hash, size, id and name that an honest sender always passes is left
out. Every node has a whitelist (an empty one, which accepts everybody and
knows nobody, is not modelled). The room in a mailbox and the limits on
connections appear as refusals that may happen at any time (`Unavailable`,
`NoRoom`). The loop takes its items one by one in the state they are in, and a
sidecar written after its file is gone leaves nothing behind: what listings
made beforehand and sidecars left over do is the subject of `Forward`. What `Relay` shows of
lost files is therefore what the exchanges between nodes do; the three ways in which
a folder can lose one by itself are told there.

### Forward

A folder `forward/<to>/<origin>/` is where everything on a relay meets:
connection handlers put files in, the delivery loop and pull handlers take
them out, all by path. `Forward` has all its files compete for one name, `Slots`
being the name and its numbered variants.

| In `Forward` | In the code |
|---|---|
| `data`, `meta` | the file and the sidecar under each name |
| `writer` | a handler that holds a file: a free name chosen (`uniquePath`), the file renamed onto it, the sidecar written, the last OK to be sent; and whether the sender still waits for that OK |
| `told` | the files whose senders got the last OK, and deleted them |
| `taker` | the loop (`deliverHeld`) or a pull handler (`handlePull`, `pushItem`): what is left of its listing, its claim, what it has sent and the answer |
| `node`, `taker[t].node` | which in-flight set a taker uses: a restart in place makes a new one |
| `Choose`, `Rename`, `WriteSidecar`, `SidecarFails` | `writeUnique` and `Hold` |
| `Answer`, `HangUp` | the last OK of `handleDeliver` reaches `Client.Deliver`, or cannot any more; the handler goes on in any case |
| `List`, `Skip`, `Take` | `Held` and `HeldAll`; a path that is claimed or gone; the file opened and sent with the listed proof |
| `Accepted`, `Rejected`, `KeepIt`, `Break` | the answer of the destination, or none |
| `PutAside`; `Delete`, `DeleteSidecar` | `Fail`; `Remove` in its two steps |
| `Crash`, `RestartInPlace` | the end of a process, `cmdRun` after saved settings |

A sender brings its file (`Coming`) until it was told that it is held. One that was
not told, because the connection broke, it timed out or stopped itself, the last OK was
lost or the relay stopped, brings it again, though the file may be held, with its
sidecar, delivered or refused by then, and though the first handler may still be at
work on it.

Takers find out whether a file may be delivered only from its destination, so
`Genuine` stands for `verifyIncoming` there: the proof that was listed must be
that of the content that was sent, under the plain name. Refusals for other
reasons are in `Relay`. Listing a folder is one step. `ended` counts the copies
that were stored at the destination or moved to `failed/`. `mishaps` is history.

A file that is held can be lost, and `LossNeedsMishap` says exactly when it may be:

* two handlers place files at once, and one renames over the file of the other
  (`forward_race`);
* the node is restarted in place, and an old pull handler deletes by path what has
  taken a name in the meantime (`forward_restart`);
* a sender was not told of a sidecar that was written, and another sidecar could not be
  written. The sender brings the file again; a listing made
  between the rename and the sidecar pairs the new copy with the proof of the old one,
  whose sidecar was left behind; the copy is sent, and accepted. When its own sidecar
  cannot be written `Hold` removes it while it is being sent, so its name is free,
  another file takes it, and the taker deletes that one.

`MayRestart` switches restarts in place on; everything else is always there. Lost
answers alone, failed sidecars alone, and any number of stops, broken connections, stale
listings and names used again lose nothing, for any number of files, handlers, takers and faults
(`HeldFilesStay`). How often a file may be delivered or put aside is bounded in every
case (`CopiesAreFaults`): a fault costs two copies at most. A relay that stops after it
has had a file delivered and before it has told the sender is an example: the file
is delivered again, and the sender's second copy, whose name is taken, is put aside.

### Bridge

The gateway makes a note of an e-mail, AMail brings it to a node with a
processor, which runs a command on it and writes a reply, and AMail brings that
to the gateway's inbox, from where it is sent. Both are programs of their own
that poll, and remember in memory and in a state file what they are done with:
the processor and the outgoing gateway by path, the incoming one by Maildir id.

| In `Bridge` | In the code |
|---|---|
| `notes`, `mails` | the inboxes of the processor and of the gateway; all files have one name, `Slots` being the name and its numbered variants |
| `requests`, `replies` | notes on their way, from one outbox into the other inbox |
| `gseen`, `gstate`; `pseen`, `pstate` | the map `seen` and the state file |
| `gateway`, `processor` | where the program is within `Once`, and the file it has read |
| `Ignore`, `Convert`, `RememberMail` | `inboundOnce`, `handle`, `write` |
| `Refuse`, `Send`, `Sent`, `SendFails`, `RememberSent`, `RemoveSent` | `emailOnce` |
| `Reject`, `Take`, `Run`, `NoAnswer`, `Reply` | the processor's `Once`, `match`, `handle`, `reply` |
| `GatewayStops`, `ProcessorStops` | the end of the program, and `New` |
| `DeleteNote`, `DeleteMail` | `apiDelete` of the web interface |

Whether an e-mail, a note or an `#email` file qualifies is left open, so are the
order in which a poll finds files and whether a command succeeds. AMail is
taken as what `Relay` shows of it: a file arrives, and twice only after a
fault. A message folder stands for one file, receipts are left out (no
processor or gateway acts on them), and looking at a file and reading it is
one step; sending it is not.

`ran`, `lapsed`, `sent`, `closed` and `shadowed` are history: commands started,
notes the state file did not take, e-mails sent, e-mails that ended otherwise,
and those whose note or reply came under a path that was remembered already.

### Settings

| In `Settings` | In the code |
|---|---|
| `config`, `tmp`, `content` | the files that the names `config.json` and `config.json.tmp` stand for, and what is in them |
| `writer[c]`, c a command | `whitelist`, `blacklist`, `revoked`, `peers --merge`, `ca revoke`: load, change, save |
| `writer[c]`, c a form | the settings page from its GET to its POST, which saves the whole configuration it was given |
| `writer[New]`, `writer[Old]` | the configuration in the memory of the node, and of the one before the last restart, whose handlers may still learn serials |
| `run` | `cmdRun`: loading, starting the node, waiting for a restart or the end |
| `asked` | the token in `restartCh` |
| `Load`, `Change`, `Learn` | `config.Load`; the edits (`Edited`); `learnRevoked`; each up to where `os.WriteFile` has truncated the temporary file |
| `Write`, `WriteFails`, `Rename` | the rest of `Save`, one system call each |
| `AskRestart`, `PressRestart` | `Restart` of the web interface |
| `Start`, `LoadNode`, `Wait`, `TakeRestart`, `CannotLoad`, `Kill` | `cmdRun` |

Nothing in the code keeps two saves apart, and all use one temporary name, so one
may truncate or rename what another is writing. `overlapped` records that this
has happened; the properties about the file hold as long as it has not, and the
counterexamples without that condition are short. Saves that do not overlap still
overwrite one another if one was loaded before the other was renamed: `stale`
records that, and `KeepsOthers` says that nothing else loses a change. `missing`,
`unread` and `alone` are history as well. A third generation of handlers is taken
to have ended its saves before the second is replaced (`LoadNode`).

### Membership

| In `Membership` | In the code |
|---|---|
| `up`, `listening` | nodes that run; those with their port |
| `key` | the certificate a node was started with; `join` may have installed a new one |
| `known`, `saved` | `RevokedSerials` in memory and in `config.json` |
| `leader` | `role` and `leader` |
| `ask` | how far `discover` is in the list, with the request or reply on its way |
| `Begin` ... `Finish` | the ticker, `discover`, `reachable`, `Client.Status`, `handle`, `setRole` |
| `Learn` | `learnRevoked`, at both ends |
| `Contact` | `Client.Deliver` and `Client.Pull`, as far as they carry serials |
| `Start`, `Crash`, `Revoke` | `loadNode`, `New` and `startListener`; the end of a process; `ca revoke` and `revoked add` |

Every node's list has the same host entries (`Hosted`), `Reach` does not change,
saves succeed and nobody else writes the file while a node runs, except for
`Revoke` (what writers do to one another is the subject of `Settings`). `revoked
remove` is left out: the other nodes teach the serial back, as the command says.
The web interface and the commands ask for the status with a client that neither
tells nor learns serials, and are left out.

### Inbound

| In `Inbound` | In the code |
|---|---|
| `active`, `activeIP`, `strikes` | the limiter of the running node |
| `handler` | a connection from `Accept` to the deferred release, and the node's own pull; `gen` is the node, and so the limiter and the `Mailbox`, it belongs to |
| `usage` | `Mailbox.usage` of each generation |
| `shown` | the bytes of inbox, forward and failed in files that a scan finds |
| `hidden` | those in files with a name that `IsTemp` is for, or in a folder whose name begins with a dot |
| `MaxConns`, `MaxStrikes`, `Cap` | `max_connections`, `max_per_ip_per_min`, `max_mailbox_mb`, for each generation: a restart in place happens because settings were saved |
| `Admit`, `Release`, `Strike`, `Expire` | `admit` and what it returns, `strike`, the end of a minute |
| `TurnAway` | every other end: blacklist, whitelist, `request`, idle time, refused files, other requests |
| `Announce`, `Offer` | `handleDeliver` up to "send body", an item in `pull`: both ask `roomFor` |
| `Place`, `Count`, `Unplace` | `writeUnique`, `addUsage`, `Hold` that cannot write the sidecar |
| `Seen` | `Usage`: what is cached, or a scan, which passes over hidden files (`walkFiles`) and may miss files placed while it goes on |
| `RestartInPlace` | `cmdRun`: a new limiter and a new `Mailbox`, with other settings, beside old handlers, which go on with theirs |

When a handler fails or breaks off is left open, so is the order of everything.
A file is counted (`addUsage`) whatever its name, and scanned for only if it is not
hidden; so the cap is a cap on `shown`, and `hidden` grows as it likes: no property bounds it.
`MaxFile` is the largest `max_file_mb` in the network, as `pull` does not compare
with the node's own; `MaxHidden` only keeps the instance finite. The sidecars of held
files, which `Usage` leaves out as well, are small and left out.
Files the node holds for itself (`HoldFile`), and those of the user that are moved
to `failed/`, only raise the count and are left out; so is taking a file away between
placing and counting it, which gives the same as after.

## Runs

Three nodes: `a` and `b` have a host, `c` can only dial out. This is the
smallest network with a relay that is neither origin nor destination, and
with a second server to fail over to. `Slots` bounds the variants of a name; a third copy
needs two faults. `MaxHops` is 3 as in the code. `MaxFaults` bounds crashes,
restarts, broken connections and failed writes together.

| Run | Question | Answer |
|---|---|---|
| `chaos` | b sends to c through servers that change at will, two faults of any kind: is a file lost, a reply false, a copy made without a fault, a file sent twice at once by one node? | no; the inductive invariant of the proofs holds and `Mail` is implemented |
| `gap` | one server everybody sees and a list with a gap: a file that is held and pulled, and one to a stranger, with a fault | both come to rest |
| `window` | a listing between the file and its sidecar | a genuine file lands in `failed/` |

`Forward` runs with the loop and one pull handler, a name and its first variant.
Two files compete for them. Two faults are what the shortest loss without a restart
needs, and what makes a sender come twice while the relay stops (`IInv` has the account of
copies); the run that needs fairness has one, and restarts. The third way to lose a
file is found by `forward_restart` with `MayRestart = FALSE` and `MaxFaults = 2`: TLC then
violates `HeldStays` by the twenty states told of above.
The handlers at once that `LossNeedsMishap` excepts are left out of `forward_held` (one
`Writer`) and are in the proof.

| Run | Question | Answer |
|---|---|---|
| `forward_held` | lost answers, failed sidecars, stops, old listings: can a file be lost that its sender has deleted? | only where a sender was not told of a sidecar and another sidecar failed; the inductive invariant of the proofs holds |
| `forward_churn` | senders that come again, a fault or a restart: to how many ends does a file come, does every sender get rid of its file, and the folder become empty? | to one, and two more for the fault at most, times the number of nodes; yes |
| `forward_race` | two handlers at once | one overwrites the other's file |
| `forward_restart` | a pull handler that outlives a restart in place | it deletes a file that was never sent |

`Bridge` runs with two e-mails and one fault, and three paths, so that there is
always a free one: each of the two has a request and a reply, and one of these may arrive twice.

| Run | Question | Answer |
|---|---|---|
| `bridge_answers` | a stop, a failed write or send or a second copy anywhere, a user who deletes: does a command run twice for a note, is an answer sent again without a fault, is one missing without a reason? | no; the inductive invariant of the proofs holds |
| `bridge_reuse` | `email_delete_after_send`, nothing fails and nobody deletes: is every e-mail answered? | no, a path that was sent from is never looked at again |

`Settings` runs with one form, one command that takes a serial off the list again,
the node with a handler of the one before, and one kill, failed write or restart
by hand. Three inodes are one more than the names, so that an open file may have
none.

| Run | Question | Answer |
|---|---|---|
| `settings` | what do writers of `config.json` do to each other, and does the node get to use what was saved? | only saves that overlap tear the file; only copies loaded before lose a change; a restart is never missed, and what the form saved comes into force |

`Membership` runs with three nodes on one list, two of them hosted, one
revocation of a certificate whose owner gets a new one, and two events (crashes,
lost requests, ports that are taken, revocations).

| Run | Question | Answer |
|---|---|---|
| `membership` | do discoveries find the first of the list that answers, do nodes settle on it, agree, refuse alike and never forget a serial? | yes |

`Inbound` runs with three connections from two addresses, of which two may be open
before the restart in place and one after it, and never two from one address; in the
code the cap of an address is at least four (`LeastPerIP`). All files have one size, and
the mailbox has room for one before the restart and for two after it. A hidden
file comes where there is none yet.

| Run | Question | Answer |
|---|---|---|
| `inbound` | do counts and caps hold whatever ends a connection, and how far does the mailbox outgrow its cap? | yes; by one file for every connection a generation may have open; not at all if files come one by one: of the files that a scan finds |

The runs that end in a violation contradict the documentation; the
counterexamples are described in `PROJECT.json` under "findings".

A single crash can leave two extra copies (one from the moment between
`HoldFile` and `MarkSent`, one from a pull that was already sending the held
copy), and where a relay is just taking in copies from several nodes, as many more:
each of these nodes keeps its own. `DuplicatesNeedFaults` therefore says that copies
need faults and does not count them; `CopiesCountFaults` counts them in one folder.

Some things the code does are contrary to its documentation and need no run to see:

* `pull` looks up neither the origin of an item in the blacklist nor its size
  against `max_file_mb`, as `handleDeliver` does (docs/DESIGN.md:18,
  docs/PROTOCOL.md:128, 134): a blocked origin's file arrives through the server.
* A file for a node that follows another server stays where it is held, since only
  a server's own clients pull from it; docs/DESIGN.md:67-69 says mixed
  reachability resolves itself. `gap` therefore lets all nodes see one server.
* A node without a host entry that stands before hosted ones in its own list, listens
  and may serve, makes itself server when nobody before it answers, though others
  after it would (the comment at node.go:627-628); `Uniform` excepts such lists.
* docs/SECURITY.md:99-102 says that within one discovery interval the whole reachable
  network refuses a revoked certificate. Serials travel only between a node and
  its server or whom it sends mail (`FollowersRefuseAlike`).
* docs/DESIGN.md:150-151 says a burst cannot slip past the mailbox cap. Files announced
  before the first is stored can; `RoomBound` is how far, `OneByOneFits` what holds.
* README.md:212-213 says that all received data is capped. Files with hidden names (`IsTemp`,
  folders that begin with a dot) are accepted and do not count; a name like " .x", which an
  outbox lists, becomes ".x" on its way (`CleanName`). Once the cached size has expired the next such file
  is accepted, without limit; the comment at mailbox.go:73-74 and docs/SECURITY.md:138 say otherwise too.
* A file that a relay holds under such a name is not listed by `Held` either: its sender
  has been told that it is held, and nobody ever offers it to its destination.
  `Relay` and `Forward` have files of names that are listed.
* A member that shares an address with a stranger who fails handshakes is refused
  with it for the minute (limits.go:14-16 says members are never throttled so).

## Fairness

`FairSpec` assumes that the loop, the handlers and the replies go on (weak
fairness; every dial, handshake and idle connection has a time limit), and
that a file that can be taken up, offered, pulled or stored again and again is
so in the end (strong fairness per file: the loop runs on two tickers and goes
through everything it lists; that a peer is reached and has room now and then
is an assumption about the environment). Nothing is assumed about faults, nor
that a connection breaks when it should: that the loop does not wait for ever
on a dead connection is part of `Break` and is what `Settles` depends on.

`FairSpec` of `Forward` assumes the same of a folder: handlers and takers go on,
the loop lists the folder again, and the destination answers what is offered
to it again and again. It assumes nothing of pull handlers starting a new
listing, nor of senders but that one that was not told comes again.

`FairSpec` of `Bridge` assumes weak fairness of each program as a whole, which is
one loop that polls, and of AMail; and strong fairness of `Sent`, that is, that
a command that is tried at every poll succeeds in the end. Which file a poll
takes first is left open.

`FairSpec` of `Settings` assumes that a save once begun goes on, that the page asks
for the restart after saving, and that `cmdRun` takes its steps and is started
again by the service manager. Nobody has to begin a change, and nothing is assumed
of faults.

`FairSpec` of `Membership` assumes weak fairness of each node's discovery, which a
ticker begins and timeouts bring to an end. Crashed nodes need not start again.
`Inbound` has no liveness properties.

## Proofs

`Relay_proofs` proves for all networks, with no assumption but
`NetworkAssumption` (the types of the constants):

* `TypeCorrect`: `Spec => []TypeOK`;
* `Inductive`: `Spec => []KeepInv`, and from it
* `NothingLost`: `Spec => []NoLoss`,
* `RepliesTrue`: `Spec => []StoredMeansSafe`,
* `PromiseKept`: `Spec => KeepsPromise`, the refinement of `Mail`.

`RelayOnce_proofs` goes on with

* `FilesSentOnce`: `Spec => []SentOnce`,
* `NoDuplicatesWithoutFaults`: `Spec => []DuplicatesNeedFaults`,
* `RelayInvariant`: `Spec => []IInv`, that is, `KeepInv` and `OnceInv`.

`NoLoss` is not inductive: a copy is deleted because another one exists, and
that one may be about to be deleted too. The argument is a rank. A copy in the
outbox has rank 0, a held one `hops + 1`, so every relay adds one. A reply
"stored" is backed by a copy of higher rank, or by one that has come to its end
(`StoredMeansSafe`), so deleting the sender's copy never deletes the copy of
highest rank; and when that one is deleted in its turn, one of still higher
rank exists. `KeepInv` adds what the steps need: a pull stores only at the
destination, a file waiting for its sidecar stays in its place until it is
written, the item a loop works on is still there unless the file is done, one
path has one item, and a loop waits for at most one reply.

`SentOnce` rests on the in-flight set, which the loop and the pulls share: while the
loop works on a path no pull has claimed it (`LoopExclusive`), and no two pulls
have (`PullsExclusive`). This needs no assumption on faults, as a restart in place
takes the claims of the old handlers out of the account. That a file does
not end twice does: until something breaks every transfer has its claim and its
file is still there (`ClaimedAndThere`), and of each file there is one copy that may
yet be sent, or none once it is done (`OneLive`). A copy whose successor is
written and which is about to be deleted does not count: it is claimed, so
nobody else takes it up, and its sender waits for the reply, which comes.

`Forward_proofs` proves, from `FolderAssumption` alone, that is, for the code as it
is,

* `ForwardTypeCorrect`: `Spec => []TypeOK`,
* `ForwardInvariant`: `Spec => []IInv`, and from it
* `HeldFilesStay`: `Spec => []LossNeedsMishap`,
* `CopiesAreFaults`: `Spec => []CopiesCountFaults`.

Whether `Delete` removes the file that was sent depends on everything that
happened to the name since the listing, and no local check in the code helps.
The argument has to explain why two of the mishaps are needed. As long as every sender
was told of its sidecar (`ProofsTold`), a proof in a sidecar or in a listing is that of
a file that is held, or about to be, and whose handler has done all it does to the
folder; so what a taker sends with a fitting proof cannot be removed by a handler
any more, only by a taker, and of these one node has one at work on a name
(`OnePerNode`). And as long as no sidecar has failed, a handler removes nothing at all,
whoever was told. In both cases the name stays with the file (`NameKept`,
`OneAtWork`), so the file is still there when the answer comes (`SentIsThere`), and
what is deleted has been delivered (`KnownStays`). `Keeping` is these four, and
`IInv` has it under `Sound`, which only ever becomes false.

The bound on copies is an account of the ends a file may still come to (`EndsToCome`),
which no step raises, and a fault by at most two for each node. What makes it subtle is that
senders come again, names are used again and after a restart two in-flight sets are
in use. Every copy that is placed may end once for every node. A copy is put aside
wherever it is a numbered variant, as its proof does not fit; under the name itself
it may end once for every node whose takers may still get to it (`Sources`), except those
that have stored what had the name and are about to delete it (`Storing`): in one node
no two takers are at work on a name. A copy that was replaced or removed while it was being sent
may still be stored by those that have sent it (`Offering`). A fault gives up
what had been stored or makes a sender come again, or both.

`Bridge_proofs` proves, from `BridgeAssumption` alone, `BridgeTypeCorrect`
(`Spec => []TypeOK`), `OnceAlways` (`Spec => []OnceInv`) and from it `CommandsRunOnce`
(`Spec => []RunOnce`), `BridgeInvariant` (`Spec => []IInv`) and from it
`AnswersCountFaults` (`Spec => []SentCountsFaults`) and `NoEmailForgotten`. `RunOnce` needs to know that what is
in memory is in the state file too, or is among the notes that failed
(`lapsed`), and that between remembering and starting the command has not run
(`RememberedFirst`). `SentCountsFaults` counts what may still become an answer to an
e-mail (`Answers`): the conversion, the requests and replies on their way, the notes
and mails that the state files do not have, what the two programs are at, and
the answers sent. Every step passes one of these on to the next, and only a
fault adds one. `NoneForgotten` is the same in the other direction, with what is in
memory in place of what is in the state files: an e-mail that was converted is
somewhere, or has been dealt with, or `shadowed`. It is `Accounted` but for the
progress that fairness makes.

`Settings_proofs` proves, from `SettingsAssumption` alone, `SettingsTypeCorrect`,
`SettingsInvariant` (`Spec => []IInv`) and from it `ConfigNeverTorn`,
`LearnedSerialsSaved`, `RestartNotMissed`, `SavesTellTruth` and `SavesKeepOthers`.
The invariant says who has the temporary file: a writer that has saved alone so far
has it to itself, with its own copy in it (`AloneIsSound`), and until two saves
overlap every writer is alone (`OverlapSeen`). A copy that is not stale contains
all of the file but what its command is to remove (`CopiesFresh`).
`FormsReachTheNode` (`Spec => LoadsWhatWasSaved`) is the safety part of `TakesEffect`:
whenever the node loads the file it gets what the forms have saved (`FormsSaved`),
and by `RestartNotMissed` it is asked to after every save.

`Membership_proofs` proves, from `MembershipAssumption` alone, `MembershipTypeCorrect`,
`MembershipInvariant`, `TellersRefuseAlways` and `NothingForgotten`, and
`SameOrderSameServer`: where nothing but the order of the list tells the nodes
apart, the server each would choose is the same. With `Settled`, which TLC checks, that is
`Agreement`. `NeverForgets` holds because what is in memory is in the file
(`KnownSaved`), and `TellersRefuse` because of that. `DiscoveryFindsFirst`
(`Spec => StaysOnCourse`) is the safety part of `Settled`: over nodes that stay as they
are a discovery comes to the first entry of the list that answers, and those after it
stay there, one step at a time (`OnCourse`); what is left is that discoveries go on.

`Inbound_proofs` proves, from `InboundAssumption` and `SettingsAssumption` alone,
`InboundTypeCorrect`, `InboundInvariant` and from it `ConnectionsCounted`, `CapsAlwaysHold`,
`StrikesAlwaysBounded`, `RoomAlwaysBounded` and `FilesOneByOneFit`. `RoomBound` is not
inductive: whether a file fits is decided on a count that lags behind. The invariant
keeps two accounts, both of the files that a scan finds; the count includes hidden
ones until it expires, and is only larger for it. `Uncounted`: what is there
exceeds the running generation's count by what that has placed and not counted and by what handlers of
earlier generations have brought since, which is at most a file each. `AllowedFor`: what
is there, what is accepted and a file for each old handler that may still announce one
fit into the largest cap and one file for every connection so far. Accepting a file keeps the
second because of the first; restarting moves at most `MaxConns` handlers to the old ones
(`FewLeft`). `OneByOneFits` follows from the first account: with nothing under way and no
earlier generation, what the node has counted is all that a scan finds.

All invariants and action properties that the runs show to hold are proved. Only
model-checked is liveness (`Settles`, `Empties`, `Accounted`, `TakesEffect`, `Settled`,
`Agreement`, `FollowersRefuseAlike`): TLAPS has no rules for fairness with `ENABLED`. What
these rest on is proved where it is a safety property: `NoLoss` for
`Settles`, `LossNeedsMishap` for `Empties`, `NoneForgotten` for `Accounted`,
`LoadsWhatWasSaved` and `NoMissedRestart` for `TakesEffect`, `StaysOnCourse` for
`Settled`, `SameOrderSameServer` for `Agreement`, `TellersRefuse` for `FollowersRefuseAlike`.

## Not modelled

* Frames, formatting, markdown and styles, the sealing of keys: no state over steps.
* Attachments of a message folder and receipts (`outbound.go`): `Bridge` takes a
  folder for one file.
* Pruning of empty folders, and putting files into `outbox/` (`Enqueue`, `Drop`).
* The allowance of a peer, idle times and the disk floor: `TurnAway` stands for them.
* The composition of `Settings` with `Membership`: a revoked serial that one writer's
  save takes out of `config.json` while the network goes on telling it.

## Plan

1. Message folders: files that arrive one by one while the gateway looks at them.
2. Proofs: how many copies a number of faults can make in `Relay`, whatever the network.
3. The outbox, with everyone who puts files into it.
