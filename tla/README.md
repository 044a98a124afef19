# Verification of the Webcom C SDK

TLA+ models of the Webcom C SDK (`lib/`) and of its shell (`tools/`): the
datasync connection, the listen registry, the cache of the database, the event
registry, requests and messages, push ids, the order of keys and paths, the AVL
trees under all of them, the authentication service, and the scripts of the
shell. TLC checks them on small instances; TLAPS proves theorems about all of
them, for all instances.

## The system

The SDK keeps a local copy of parts of a JSON database and a websocket to its
server. Everything runs in the thread of one event loop (libev, libuv or
libevent): the loop calls the SDK when a descriptor is ready or a timer fires,
libwebsockets (lws) calls `_wc_lws_callback()`, and the SDK calls the
application. There are no locks; what makes the code hard is the order in
which application calls, timers, answers, pushes and disconnections arrive.

| Component | State | Operations | Correct means |
|---|---|---|---|
| Connection (`datasync.c`, `webcom_base.c`, timers in `libev.c`) | `state`, `lws_conn`, `parser`, `ws_next_reconnect_timer`, the two libev timers | connect, close, send, keepalive, reconnect, the lws callbacks | the state field agrees with the websocket; nothing is written to a dead one; timers follow the connection; close and reconnect complete |
| Listen registry (`listen_registry.c`) | an item per watched path: status, reference count; requests under way point to items | watch, unwatch, mask, unmask, suspend, resume, result of a listen | every watched path is listened to, directly or through one above it; nothing else stays listened to; no request is lost over a reconnection |
| Data cache (`treenode.c`, `treenode_cache.c`) | tree of nodes with lazily computed hashes | set, merge, set leaf, make path, get hash | the tree holds the document; a stored hash is never stale |
| Event registry (`on_registry.c`, `on_api.c`) | a subscription per path: callbacks by type, hash of the value, hashes of the children | on, off, dispatch of a push, deferred deletion | callbacks are told what changed, once; references to listen items match callbacks |
| Pending requests (`request.c`) | hash table of lists, last request number | request, response | an answer finds its request; a callback is called at most once |
| Paths (`path.c`) | none | parse, compare, prefix | a total order in which a path precedes those below it |
| Push ids (`datasync_utils.c`) | time and random part of the last id | generate | ids of one client grow |
| AVL trees (`avl.c`) | the tree; iterators with a stack | insert, remove, get, iterate | searches find every element; stored heights are exact; iterations return all elements in order |
| Parser, encoder (`parser.c`, `message.c`) | tokener | parse, encode | a message is what its JSON says |
| Authentication (`auth.c`, watchers in `libev.c`) | curl handles, parser of the reply, watcher and timer | start, service, the callbacks of libcurl | the reply is reported once and truly; the loop watches what libcurl wants; the transfer ends |
| Shell (`wcsh.c`, `wcsh_program.c`, `wcsh_parse.c`, `fsm.c`) | the scanner, the statements read, two state flags, the idle watcher, what is waited for | read a chunk, execute a statement, pause, resume | statements in order, none lost; a waiting statement holds back the others and is woken up |
| libuv, libevent, `ht.c`, SHA-1, base64, logging, examples | | | see "Not modelled" |

Interactions: a push is written to the cache and then dispatched by the event
registry, whose callbacks may cancel registrations; registering and cancelling
watch and unwatch paths in the listen registry, which sends requests through
the table of pending requests over the connection; the handshake resumes, the
loss of a connection suspends all items of the listen registry. libcurl asks
the SDK for a watcher and a timer, which the loop serves by calling libcurl. The
shell reads its script, executes it, and is resumed by callbacks of the SDK, all
in the same loop.

Hard behaviours (`PROJECT.json`, "hazards", has them line by line): answers
applied through pointers to items that were masked, freed or reallocated since;
a connection lost between two pieces of a message; timers that fire in a state
they were not armed for; a write that must drop the hashes above it; hashes
that are maintained only while somebody listens; a callback that cancels itself
in the middle of a dispatch, even twice; requests that are never answered; a
reply cut anywhere; a pause and a resume that cross each other.

## Modules

| Module | Models | Composition |
|---|---|---|
| `CnxLifecycle` | abstract life cycle of `wc_cnx_state_t` | used by `ListenRegistry` as its connection |
| `Connection` | `datasync.c`: the connection | implements `CnxLifecycle` |
| `ConnectionProofs` | proofs | extends `Connection` |
| `DsPath` | prefix relation of paths | |
| `ListenRegistry` (`MCListen`) | `listen_registry.c` with the wire and the server | extends `DsPath`, instantiates `CnxLifecycle` |
| `ListenProofs` | proofs | extends `ListenRegistry` |
| `Document` | abstract document: leaves by path | |
| `DataCache` (`MCDataCache`) | `treenode*.c` | implements `Document` |
| `CacheProofs` | proofs | extends `DataCache` |
| `OnRegistry` (`MCOnRegistry`) | `on_registry.c`, `on_api.c` | instantiates `DataCache` |
| `OnProofs` | proofs | extends `OnRegistry`, instantiates `CacheProofs` |
| `OrderedSet` | abstract set with iterations in order | |
| `PathOrder` | `path.c`: parsing, order of keys and paths | extends `DsPath` |
| `Avl` | `avl.c` | |
| `PathTree` (`MCAvl`) | the trees of paths of the registries | extends `Avl` and `PathOrder`, implements `OrderedSet` |
| `PathTreeProofs` | proofs | extends `PathTree` |
| `RequestBook` | abstract table of requests | |
| `Messages` | `message.c`, `parser.c` | |
| `PushId` | `datasync_utils.c` | |
| `PendingRequests` (`MCRequests`) | `request.c`, and the way of a message in `datasync.c` | extends `Messages` and `PushId`, implements `RequestBook` |
| `PendingProofs` | proofs | extends `PendingRequests` |
| `Auth` | `auth.c` with `libev.c` | |
| `AuthProofs` | proofs | extends `Auth` |
| `ShellParser` | `wcsh_parse.c`, `wcsh.fsm`, `fsm.c` | |
| `Shell` (`MCShell`) | `wcsh.c`, `wcsh_program.c` | extends `ShellParser`, instantiates `CnxLifecycle` as its connection |
| `ShellProofs` | proofs | extends `Shell` |

### Connection

`state`, `parser` and `backoff` are fields of `struct wc_datasync_context`;
`recon` and `ka` are the two libev timers; `sock`, `hs` and `writeReq` are what
lws and the network know of the websocket. One action per application call,
timer and lws callback; `again` is what the application returns to
`on_disconnected` and `on_error`. The JSON parser is reduced to what it holds:
nothing, a prefix of the current message, a prefix that a dead connection left
behind (`stale`), or such a prefix that has swallowed a whole object as one of
its values (`nested`). The next message makes a nested parser fail, since JSON
allows no second value there. lws closes a websocket at once when its writable
callback returns -1, so `Writeable` contains `LWS_CALLBACK_CLOSED`. The
reconnection timer may be set while it is active (`wc_datasync_connect()` called
twice): `libev.c` then calls `ev_timer_init()` on an active timer, which libev
forbids and whose outcome depends on its heap. The model takes the timer for
re-armed.

### Listen registry

`status`, `ref` and `addr` describe the item of each path; `addr` is its
address, because requests carry it (`on_listen_result`'s `user`). `wire` holds
the requests that are not answered yet, in order, and `srv` what the server
listens to. The server handles requests in order, and handling a request and
delivering its answer are one step, since the client sees only the answer.
`MemoryReuse` lets `malloc()` give a new item the memory of a freed one that an
unanswered request still points to. The registry is a sorted tree; its order is
only used through the fact that a path precedes those below it.

### Data cache

`cache` maps the path of every node to its value and stored hash. SHA-1 is
taken to be injective: the hash of an object is the function from its non-null
children to their hashes. Leaf values are atomic. `Document` keeps only the
leaves: empty objects, nulls and hashes are implementation detail.

### Event registry

`reg` is the list of callbacks, `hash` and `kids` what each subscription
remembers, `ref` the references of the listen items; `seen` and `told` are
history variables: what a value callback was last told, and how often each
child was announced to a child-added callback, less its announced removals.
A callback of a type in `Cancels` may return 0 on any call. `deleted_cb_gc()`
reads the entry of a handle that is marked twice after it was freed; the model
takes glibc's behaviour, where the `sub` field is still intact.

### AVL trees

`heap` is a function from the allocated nodes to their links and stored heights; a
node is known by its key, since nodes do not move in memory, so that `root`, the
links and the stack of an iterator hold keys. The loops and the recursive functions of
the code go down one branch of the tree: `Descent` is the sequence of the nodes they
meet, for a key or for one of the two ends of the order (`Lowest`, `Highest`), where the
code follows `l` or `r` only; `Ascent` is what the recursive functions do as they return,
one link and one `avl_balance()` for each node. Both are written as recursive
functions over numbers, which the proofs can unfold. `asked` and `given` are history
variables: the key that an iteration was asked to start at, and what it has returned.
`OrderedSet` says what is owed in these terms, so that neither the stack of the
iterator nor what is in memory is part of the refinement mapping: its elements are the
keys that a search from the root finds (`Members`). The comparison is a
parameter of `Avl`; `PathTree` has paths for keys, as the trees of the two registries,
and compares them with `path_cmp`, while its `OrderedSet` uses `PathBefore`, which
follows from the order of keys that `webcom-parser.h` documents. `MCAvl` computes the
comparisons once (`Cmp`).

### Keys and paths

A key is what `wc_datasync_key_cmp()` reads of it: the integer that `sscanf()`
makes of it, if any, its length, and its place in the order of `strcmp()`. The
difference of two integers is returned as an `int` (`ToInt`). For keys that are far
enough apart to be truncated, and for pairs like `0x1` and `001`, the order is not the
documented one; the theorem `KeyOrder` says what it is. `PathOrderAssumption` excludes
them from the paths in use. `SubtreesAreRuns` is what the loops of the listen and event
registries over their sorted trees rely on.

### Pending requests, messages, push ids

`table` has `Slots` lists. `wire` holds the JSON of the requests that were sent;
the answers go through the parser, which refuses those without data. `lost`
collects the requests that were not sent, whose connection ended or whose
answer was refused, `unstored` those without memory for an entry; both only
serve to state the properties. JSON values are records, so that the order of
members and the text of numbers are not seen. Any message of the server is processed and
freed (`Hear`, `Up`, `Respond`): what it allocates is the set of fields the parser
filled, what is freed the set `msg_free` names, and the rest is `leaked`. What is
left of a message that the parser refuses is not counted.

A push id is the digits of the time and of a random number of two parts, which
is incremented, with a carry, while the time stays the same. The clock of the
server may be set back by a handshake (`Up`).

### Authentication

libcurl is external. `wc_auth_service()` is split at its call of libcurl: `FdEvent`
and `TimerEvent` are the event that makes the call, `Finish` has what follows it
(`Cleanup`), and `call` says who is calling. Meanwhile libcurl opens and closes
sockets (`Sockets`), hands over data (`Data`), and at last asks for a timeout and
returns (`Return`) or ends the transfer (`Finish`); `MaxSteps` is its timeout of ten
seconds. What it asks for goes through `curl_sock_cb()`, `curl_timer_cb()` and the
libev callback. A timeout of 0, which it also asks for when
`wc_auth_with_password()` gives it the handle, sets no timer: `curl_timer_cb()` calls
libcurl again from within the first call (`call = "nested"`), and discards the count of
the transfers that still run. A transfer that ends there is never cleaned up
(`handle = "ended"`), and authentication is refused from then on as it is after any other
transfer. That libcurl refuses such nested calls from version 7.84 on is not modelled.

A call that breaks the contract of a library (a second
socket or timeout initialises an active watcher; text after the reply is fed to
the freed parser; the constant text of a syntax error is freed) is recorded in
`broken`. The behaviour ends there, since what follows is undefined, and the
properties speak of everything before.

### Shell

`program` is the list of statements, `program_state`, `runner_state` and `idle`
are the flags and the watcher of `wcsh_program.c`, `waiting` and `data_cb` what
`wait` and `sleep` wait for. The script is text, one letter for each word, read
in chunks of one or two letters and scanned by the table of `wcsh.fsm`. A script
comes with the statements it stands for, which is what `RunsInOrder` compares
with. The connection is `CnxLifecycle`. Of the event registry a path has the types of
the callbacks that `on` registered (`on`) and what its subscription remembers
(`hash`), so that `wait data` hears of a value only if that differs from it; no path
is above another one, and the members of objects are not seen. `wait data` compares
with what `treenode_from_json()` makes of its argument, which is null for a boolean and
has 32 bits for an integer, while the cache keeps both. `NoLostWakeup` allows the two
ways in which a wakeup is lost, which are findings: `DataIsMissing` asks for the written
value only where the conversion keeps it, and a wait that was registered with a
subscription that remembered another value than the cached one (`stale`, a history
variable) may have missed its event.

## Runs

| Run | Expectation | Shows |
|---|---|---|
| `connection` | pass | all properties of the connection, long messages included |
| `connection_stale_parser` | violation of `HandshakeHeard` | the parser of a dead connection swallows the next handshake |
| `listen` | pass | safety of masking and resubscription, `WatchSettles` |
| `listen_race` | violation of `WatchedIsServed` | a late answer turns a masked item ACTIVE, and it is left unserved |
| `data_cache` | pass | tree shape, fresh hashes, refinement of `Document` |
| `on_registry` | pass | what callbacks know, reference counts |
| `on_double_cancel` | violation of `RefsMatchCallbacks` | a child callback that returns 0 twice in one dispatch drops another callback's reference |
| `on_stale_hash` | violation of `ValueChangeHeard` | a change back to a value remembered from earlier is not announced |
| `avl` | pass | heights, order, count, iterations from any key, `avl_it_peek_prev()`; the order of keys and paths |
| `pending_requests` | pass | table, at-most-once callbacks, every answer arrives; codes and memory of messages; push ids grow |
| `auth` | pass | true replies, one cleanup, loop and libcurl agree, transfers end |
| `shell` | pass | scripts run in order and to their end, waits hold, no wakeup is lost but in the two ways below |

The violations are disagreements between the code and its documentation;
`PROJECT.json`, "findings", quotes both sides. Three more findings belong to the
run `shell`, which passes because its properties state them as exceptions: the
conversion of `wait data`, its stale subscription, and `exit`, which in a script ends
nothing (`ScriptEnds` is about the execution of `exit`).

### Bounds

- `connection`: none; the state space is finite, the backoff has ten values.
- `listen`: a chain of three paths (masking nests: a masked item masks nothing,
  but what it covered must be found again), two registrations per path, two
  requests under way when the application acts (a single step may add more),
  one lost connection, three addresses, so that one is always reused. The runs
  that look for a violation use shorter chains and longer wires.
- `data_cache`: two branches, one of depth two; values that are leaves, empty
  objects, objects with nulls, and objects of depth two, so that every write
  happens above, at and below every other. `MaxDepth` stands for
  `WC_DS_MAX_DEPTH` and the nesting that json-c accepts; it bounds no action, as
  `Path` is closed under prefixes already, and is there for the proofs.
- `on_registry`: callbacks at the root and one level below, two handles (the
  smallest number with interference), pushes above, at and below both. The
  handles are symmetric. Only value callbacks cancel themselves there: what
  happens when child callbacks do is the subject of `on_double_cancel`.
- `avl`: seven paths of integers of one and two digits and of names, which reach all
  rotations, removals at every place, and trees deeper than AVL trees (six nodes
  at depth four after a removal). Paths have a depth of up to 2 (`MaxDepth`),
  their texts of up to three, with slashes doubled, missing and at the end.
- `pending_requests`: two slots and three requests, so that two share a list
  and each may be removed from it, at its head or its end, before the other; two
  milliseconds, and random numbers of two parts of one bit, so that carry and
  wrap happen. `CodesAgree` covers all nine actions, `FreedIsAllocated` samples
  of all messages, complete or with one member missing.
- `auth`: two sockets, replies of up to three pieces and a tail, ten steps of
  libcurl, which is enough to open, change and close sockets around them, with nested
  calls in between.
- `shell`: four programs, each in three notations, one of tokens that must
  be quoted, and four about `on`, `off`, `cache load` and `wait data` with booleans
  and integers of 32 and 64 bits; two lost connections and three values, so that every
  wait can be passed, missed, and entered after its event, and a value can go and come
  back.

### Fairness

- `connection`: the event loop runs armed timers and ready descriptors (weak
  fairness of `ReconnectTimer`), lws ends every attempt and delivers a requested
  writable callback (`OpeningEnds`, `Writeable`), the server closes a connection
  that stays silent (`SilentClose`, documented in `webcom-datasync.h`).
  `EventuallyConnected` also assumes a network that works: attempts that are
  repeated for ever succeed, and repeated handshakes arrive (strong fairness).
- `listen`: weak fairness of attempts, handshakes and answers, and of the end of
  a closing connection; the first and the last are what `connection` shows.
- `pending_requests`: the server answers while the connection lasts.
- `auth`: the loop runs armed timers (`TimerEvent`), and libcurl does not block when it
  is called (`Libcurl`), as `curl_multi_socket_action()` promises.
- `shell`: the loop runs timers, input and the idle watcher; a requested close
  completes and a connection that is attempted often enough comes up, which is
  what `connection` shows.

## Proofs

`ConnectionProofs` proves, without bounds, the safety properties of run
`connection`. The inductive invariant `CnxInv` joins `SocketMatchesState`,
`KeepaliveTracksSocket` and `WritesHitOpenSocket` (the unguarded write of the
keepalive timer is only safe because the timer never outlives the websocket)
with two facts that none of them states: a handshake has been delivered only on
an open websocket (`HandshakeNeedsSocket`), and a parser in step with its
message exists only on a connected one (`SyncedOnlyWhenUp`).
`KeepaliveArming` is an action property that follows from it, and
`LifecycleImplemented` shows that every step of `Connection` is one of
`CnxLifecycle` or leaves the state alone. `HandshakeHeardIfShort` proves that
`HandshakeHeard` holds when no message is longer than the receive buffer: the
stale parser is the only way to lose a handshake.

`ListenProofs` proves the safety properties of run `listen` for every finite set
of paths, any number of requests, registrations, addresses and lost
connections, and any behaviour of `malloc()`. Assumptions: paths are finite
sequences of keys and there are finitely many; "no address" is not an address;
the bounds are numbers. The inductive invariant `ListenInv` adds three parts:
every listen request carries an address (`ListensHaveAddress`); nothing is under
way and the server listens to nothing while there is no connection
(`NothingLeftWhenDown`); and for a path that is not watched, the last request
about it, if the server may still listen to it, is an unlisten
(`UnlistenIsLast`), which is what makes `UnwatchedIsUnlistened` inductive: it
speaks only of an empty wire. `MaskedHasMasker` needs the topmost of the paths
above a given one, hence the finiteness (`TopmostExists`).

`PathTreeProofs` proves, for any two keys, in which cases `wc_datasync_key_cmp()` is the
documented order, the opposite one, or none (`KeyOrder`). For all sets of keys and of
paths that satisfy `PathOrderAssumption` it proves that `wc_datasync_path_cmp()` is the order of paths it makes
(`PathsInOrder`), and that subtrees are runs (`SubtreeRuns`): if a path lies between
`p` and one below `p`, take the first key where it differs from `p`; both
comparisons are decided there, in opposite directions.

It also proves all properties of run `avl`, for trees of any size. Assumptions:
`key_cmp` is a total order that tells the keys apart (`KeyAssumption`), and, for the
theorems about paths, is `path_cmp` (`PathTreeAssumption`), which by `PathsInOrder` is
the order of `OrderedSet`. The inductive invariant is `Inv` with `AskedInv` and `StackInv`:

- `TreeInv`: the heap is a tree from `root` (`IsTree`), and `count` is its size. That a
  graph of links is a tree cannot be said by recursion on it; `IsTree` says that there is
  a map from the nodes to the sets of the nodes at and below each, which agrees with the
  links, has what is before a node on its left and what is after it on its right, and
  with which the stored heights are right. `RotlTree`, `RotrTree` and `BalancedTree` give
  this map after the assignments of the code; `Frame` says that they leave
  other trees alone. `DescentEnds`: a search narrows the elements down to those
  between the nodes it met (`Reach`), and ends because there are fewer each time.
  `AscentRebuilds`: if the subtree where a descent ends is replaced by a tree whose
  elements belong there, the way back up makes one tree of all of them. Insertion, the
  removal and `avl_movr()` are three uses of this lemma, with a new node, with the joined
  subtrees of the removed node, and with its right subtree at the end of its left one.
- `IterInv`: the nodes of the stack descend, the right subtree of each holds what lies
  between it and the one under it (`Base`), and if the top has nothing on its left, the
  recorded right turn `__rt` is the element before it (`Stacked`). The stack alone says
  what is to come, and the turn what `avl_it_peek_prev()` returns next; `PrevIsRight` of
  the current node, which has left the stack, is a part of `Inv` of its own. `PushTree`
  and `SeekTree` show that the two starts set this up, `PopTop` that `avl_it_next()`
  keeps it.
- `AskedInv`: what is to come by the stack (`Rest`) is what is owed by the key that was
  asked for and by what was returned (`Asked`).
- `StackInv`: the nodes of the stack lose height from one to the next, so that the stack is
  never deeper than the tree (`StackDepth`). The height of a tree itself is not bounded
  by its balance: a removal can leave a tree that is higher than an AVL tree, as the run
  shows.

`Refinement` follows step by step from what the lemmas of the invariant say of the elements
and of `Rest`, with `MembersAreElems`, by which a search finds what is in memory and
nothing else, and `OwedIsRest`.

`AuthProofs` proves the safety properties of run `auth` for any sockets, pieces
and steps. The inductive invariant adds that sockets belong to a transfer that
runs (`Owned`), so that an event cannot follow the end of a transfer, and when
exactly a callback has been called (`HeardLast`).

`ShellProofs` proves `NoLostWakeup` and `NothingWhileWaiting` for every script,
whatever the scanner makes of it. Its inductive invariant ties the two state
flags of `wcsh_program.c` to the idle watcher and to what is waited for, and says of
`wait data` that the value compared with is not cached unless the wait is stale
(`DataIsOpen`).
It also proves `RunsInOrder` for every set of scripts that are well formed, that is,
whose text scanned in one piece gives the statements listed for them (`Scanned`,
which `MCShell` assumes and TLC evaluates on the scripts of the run). The theorem is
about what happens between the text and the execution: chunks of any cut, one static
machine whose statements are taken after every chunk, the program they are appended
to, and the events in between. `FeedIsTrail` turns the fold of `fsm_feed()` into the
sequence of the scanner's states, one for each letter; `ChunkScanned` says that a
machine fed with the next chunk is again in the state in which the machine that reads
the text in one piece is there, but for what it has handed on; and the invariant
`InOrder` says that what has run, followed by the program, is what that machine has
handed on so far.

`PendingProofs` proves all safety properties of run `pending_requests`, for any
number of slots and requests, any arguments and any messages of the server.
`TableMatchesWire` is not inductive: an answer takes one request from the wire
and one entry from the table, so `TableInv` adds that no number is on the wire
twice and that no request both waits and is lost. The rest is about lists: what
is in one after `Stored` and `Unlinked`, and that nothing is twice in it
(`OneInFront`, `OneTakenOut`). `BookImplemented` follows step by step.
`CodesAlwaysAgree` and `NothingLeaks` go through every kind of message, for any
arguments: which fields the parser fills (`ReadFields`) and which `msg_free()`
frees (`AllFreed`). `PushIdsAscend` needs that the digits of two numbers compare
as the numbers do (`DigitsInOrder`): take the first place where the quotients by
the powers of the base differ; the quotients of these by the base do not, so the
digits there differ, in the same direction. Assumptions: the numbers of digits
fit the random number (`PushIdAssumption`), and, in the theorem, the time fits
into its digits (48 bits of milliseconds in the code).

`CacheProofs` proves all properties of run `data_cache`, for any set of paths that
is closed under prefixes and of bounded depth, any leaves and any JSON values with
finitely many members, of which only objects have any (`IsJson`). The inductive
invariant `CacheInv` says that the nodes form a tree and that stored hashes are
fresh. The argument: each write puts new
nodes into a region of the tree that is closed downwards, and makes everything above it
an object without hash (`Put`, `Region`); a hash depends on nothing but the nodes
below (`HashLocal`); so the hashes outside the region and not above it stay right
(`FreshAfterWrite`). The bounded depth makes the recursion of `HashOf` well founded
(`HashEquation`) and allows induction from the leaves up (`TreeInduction`).
`MergeIsMerged` shows that the fold over the members of a merge writes all of them
in whatever order it takes them, from which `DocumentImplemented` follows.

`OnProofs` proves all properties of run `on_registry`, for any finite sets of
handles and keys, any subscribed paths and any pushes. `SeenIsCurrent` is not
inductive: `trig()` compares the cache with what the subscription remembers, not
with what each callback was told. `OnInv` therefore says that what a value callback
was told is what its subscription remembers, and what the cache holds; that
the children an added callback knows of are among those its subscription remembers and
among those the cache holds; and that a subscription without callbacks remembers
nothing. A push changes nothing that a subscription which is not triggered can see
(`PushIsLocal`, from `CacheProofs`). `RegistryIsTyped` needs that at least as many
references are dropped as callbacks removed; `RefsAreExact` assumes that only
value callbacks cancel themselves, `Cancels \subseteq {"value"}`, which run
`on_double_cancel` shows to be necessary.

Only model-checked: liveness (`CloseCompletes`, `EventuallyConnected`,
`WatchSettles`, `AnswersArrive`, `TransferEnds`, `ScriptEnds`), which needs
fairness and ENABLED; and what the scanner makes of a given text (`Scanned`, an
assumption of `ScriptsRunInOrder`), a recursion over the text that only evaluation
decides. All other properties of the passing runs are theorems.

## Not modelled

- Teardown (`wc_context_destroy()`), but for the pending requests, which lose
  their callbacks: it does not stop the timers, and the application must not run
  the loop afterwards.
- `libuv.c`, `libevent.c`: the same callbacks on other loops.
- `ht.c`, `data_cache_merge_ex()`, `wc_datasync_unwatch_all()`,
  `wc_datasync_path_hash()`: no caller in the library.
- SHA-1, base64, string hashes, JSON text, logging: pure functions on bytes.
- The examples, and the interactive mode of the shell: terminal input and
  output around the same commands. The commands that only print, or only call
  the SDK, change nothing in `Shell`.
- The sizes of the shell's token buffers (32 tokens of 1024 characters), which
  the code does not check.
- A process that ends: in a script `exit` sets a flag that only the interactive
  input looks at.
- Failing `lws_write()` on a connected websocket in the listen registry: lws then
  closes the connection, which is `Closed`.
- `next_try` of `on_error`: documented in `webcom-eli.h` as the delay before the
  next attempt, but never assigned, so always 0.
- Members of a merge whose keys contain `/`, which the cache parses as paths.
- A callback that calls the subscription API from inside a dispatch.

Behaviour that the models have and no document settles: a request whose data is
not JSON is sent with `null` (`Tokened`); what the parser has filled of a message
it then refuses is not freed; unwatching leaves the cache as it is, so that a new
callback may be called with an old value; when a path is refused, the items it
masks stay masked; an error of the connection makes the shell try again also
after `disconnect`.

## Plan

1. Callbacks that change the registries during a dispatch: `OnRegistry` with the
   iterators of `Avl` over a changing tree.
2. A bound on the height of trees after removals, which the stack of an iterator
   needs: `HeightsAndOrder` bounds the stack by the height only.
