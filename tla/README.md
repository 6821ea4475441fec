# A TLA+ model of git2go

git2go binds libgit2 to Go.  Most of its ~14,700 lines convert arguments, call
one C function and convert the result.  What is hard in it is everything that
lives on both sides of the border: Go values that C refers to by an opaque
address, errors that C keeps per OS thread while Go moves goroutines between
threads, callbacks that call the library again, C objects with one owner too
many or too few, finalizers that may run under a C function that still works,
and two network transports written in Go that libgit2 drives from C.  This
project models those parts, checks them with TLC, and proves their safety with
TLAPS.

libgit2, x/crypto/ssh and net/http are not in the repository.  Where a module
needs them, they are an environment, taken from how the Go code uses them and
from what its comments say of them; those definitions are marked external.

## The system

| part | files | state | operations |
|---|---|---|---|
| handle list | `handles.go` | map from C addresses to Go values, RWMutex, C heap | Track, Untrack, Get, Clear |
| error reporting | `git.go`, `wrapper.c`, all bindings | `git_error_last()` of each thread, the variable `err` of a call | LockOSThread, call, callback, setCallbackError, MakeGitError |
| callback payloads | `populate*`/`free*` of `checkout`, `remote`, `clone`, `submodule`, `stash`, `diff`, `index`, `odb`, `packbuilder`, `tag`, `tree`, `rebase`, `indexer`, `credentials` | a tracked handle for each options struct | populate, the C callback, free, Free/finalizer |
| transport registry | `transport.go`, `git.go`, `http.go`, `ssh.go` | libgit2's list, `globalRegisteredSmartTransports` | register, Free, connect, Shutdown, ReInit |
| managed subtransport | `transport.go`, `wrapper.c` | `currentManagedStream`, the C stream objects | Action, stream Free, Close, Free |
| HTTP transport | `http.go` | stream, pipe, WaitGroup, response | Action, Write, Read, Free, `sendRequestBackground` |
| SSH transport | `ssh.go` | client, session, pipes, `lastAction`, current stream | Action, Read, Close, Free |
| remote ownership | `remote.go`, `repository.go`, `clone.go`, `transport.go`, `git.go` | map of a `RemoteCollection`, `remotePointers`, finalizers, the `*Remote` of a subtransport | Create, Free, finalizer, Repository.Free, connect, Clone's callback, Shutdown |
| objects, parents, results | `object.go`, `repository.go`, `reference.go`, `commit.go`, `tree.go`, `index.go`, `diff.go`, `odb.go`, ... | a wrapper around a C pointer, its `repo` field, its finalizer | more than 300 methods: lookups, accessors, Free |
| iterators | `walk.go`, `reference.go`, `branch.go`, `config.go`, `note.go` | a wrapper as above, and the iterator's end | Next, Iterate, Free |
| diff, patch, merge, index, rebase, odb | | C objects | one C call each, some with callbacks |
| settings, describe, blame, graph, ... | | none | one C call each |

How they interact.  The handle list is under everything: options, transports,
subtransports and streams are tracked in it.  A remote that connects finds its
transport through libgit2's list and the handle list; the transport's callback
tracks a subtransport and finds its `*Remote` through `remotePointers`; the
subtransport's streams are tracked one by one, and its Read, Write and Action
are HTTP or SSH.  Every failure on the way is turned into a code, and into the
thread's last error, and back into a Go error by the innermost binding.

What makes it hard: goroutines and the finalizers' goroutine share three maps
and libgit2's unlocked list; C's allocator gives freed addresses out again, so
a stale address is some other object's; callbacks nest; functions are retried
(401), given up half-way (each step of an SSH connection), and wait for each
other (pipe, WaitGroup, session.Wait); Shutdown takes all of it down in order.
`PROJECT.json` lists these hazards at their lines, with the properties that are
about them.

## Modules

    HandleTable      the handle list as it should look: an atomic table
    HandleList       handles.go, one step per access to shared state
    HandleListProofs its safety and its refinement of HandleTable, proved
    Callbacks        errors, threads and nested callbacks
    CallbacksProofs  its safety, proved
    RebaseCallbacks  Callbacks with the checkout callback of a Rebase
    Payloads         the lifetimes of the handles that callbacks are given
    PayloadsProofs   its safety, proved
    Transports       the registry of transports, Shutdown and ReInit
    TransportsProofs its safety, proved
    Subtransport     the C streams of a managed subtransport
    HttpStream       one stream of the HTTP transport
    HttpStreamProofs its safety, proved
    Ssh              one SSH transport and its connections
    ManagedSsh       Subtransport over the Action, Read, Close and Free of Ssh
    ManagedSshProofs the safety of both, and that ManagedSsh is a Subtransport
    Remotes          the owners of a git_remote
    RemotesProofs    its safety, proved
    WrapperMethods   what each method does with the C objects of its wrappers
    Lifetimes        wrappers, finalizers, KeepAlive and the collector
    LifetimesProofs  its safety, proved
    MC*              the symmetry or constants of an instance, where it has any

`HandleList` is shown (by TLC and by proof) to implement `HandleTable`.  That
is why `Transports` and `Payloads`, which use the list, take Track, Untrack and
Get as single steps.  `Subtransport` gives the protocol in which `HttpStream`
and `Ssh` are called, and what it asks of a subtransport's Go side; `ManagedSsh`
composes it with `Ssh` and is shown to implement it.

### HandleList

`handles` is the map, `writer` and `readers` the RWMutex, `heap` the bytes that
`C.malloc` has out.  Each call is cut at every shared access: Track is
TrackMalloc (before the lock, as in the code), Lock, Drain, TrackStore,
TrackReturn.  `owned` is a ghost: the handles that Track has returned and that
nobody has begun to give back.  Callers keep the list's contract: they resolve
and untrack what they own, once, and Shutdown is alone when it clears.

Run `handle_list`: three goroutines (one writes, one reads, one waits), three
addresses and two values: enough for an address to be freed, given out
again and stored while another goroutine is inside, and for the values to be
confused.  54,510 states.  It shows mutual exclusion of the map, that an owned
handle resolves to its own value, one free for each allocation, no leak, that
the table is implemented, and that calls return.  Fairness: a goroutine inside
a call goes on (weak), and the lock is granted in the end to one who waits
(strong for Lock and RLock: `sync.RWMutex` does not starve its waiters).  No
fairness makes anyone start a call.

### Callbacks

`lastError` is libgit2's error of each thread, `frame` the stack of open calls
of each goroutine, `Schedule` the Go scheduler, which may move any goroutine
that is not `Pinned`.  The bindings have five shapes (plain, direct, message,
object, smart), named in the module's head.  A frame's `err` is the variable of
the call, `variable` says whose it is that the callbacks are given, `ret` and
`cause` are the code C returned and the error that made it give up, so that a
report (`Result`) can be compared with the cause; `got` is what the last call of
a callback returned, which the callback may hand on.

Fetch, Push and Connect run callbacks of two kinds.  Those of RemoteCallbacks
store their error in the caller's variable; those of a subtransport have none
and leave only the text (`Stored`).  A subtransport may in turn ask for
credentials (`BeginSmart`): the callback it gets stores in the variable of the
outer call.  C may overcome a failure and go on (`ignored`), and so may a
subtransport whose credentials were refused; the variable keeps the error.
`BareCode` is a callback that is not set and gives a code without a text,
`End` an iteration that is over, which has no error of the thread.

Run `callbacks`: two goroutines on two threads, nesting two deep, three calls
in all, two failures in each (`MaxDepth`, `MaxCalls`, `MaxFailures`): a
callback's own call and another goroutine's are the two that can disturb an
error, a failure that is overcome and one that is not the two that may be taken
for each other, and all fit.  About 1,051,000 states up to symmetry.

`RebaseCallbacks` adds the one callback that is written for another shape than
its call's: the checkout callback that InitRebase leaves with a `git_rebase`.
Run `rebase_callbacks`: one goroutine, two calls.

### Payloads

A holder is one options struct or object; its `payload` has what C was given
for each callback.  A binding is a record: what it populates, what it frees,
in the order of the code, and how long that lives.  Twenty-three bindings are
told apart by it.  `CallReturns`, `FreePart` and `Freed` are the deferred
functions; `Constructed`, `NotConstructed`, `Free`, `Drop` and `Finalize` the
objects; `HandOver` and `FreedByC` the credential of a signer.  A callback that
does not find its value panics (`CallBackPanics`).  Two binding calls, on two
goroutines or one inside a callback of the other, two holders and four
addresses: the most a binding tracks is three, so two may hold them all in
turn and addresses are used again.  About 386,000 states up to symmetry.

### Transports

`cTransports` is libgit2's list, `transports` git2go's own, `user` what user
code has to free.  Each call of libgit2 and each critical section is a step, so
registrations, replacements, Free and connects interleave.  Run `transports`:
two protocols, one of them managed, three goroutines, two remotes, four
handles.  A connect panics only if its transport was freed in between, which
the code allows; so does initLibGit2 when a registration fails
(`RegisterManagedFails`), and the program ends.  Shutdown is a sequence of steps during which nothing else
runs, as its comment demands.

### Subtransport

`underlying`, `alive` and `frees` describe each C stream object; `given` is the
Go stream of the last Action, `current` the field `currentManagedStream`.
libgit2's part (`MayAsk`, when it frees) is the protocol of transport.go:187.
Which stream the Go side gives is a `kind`: git2go's two subtransports, and the
"one stream for its life" that transport.go:379 allows for.  The module is
checked through `ManagedSsh`, whose steps include all of its own.

### HttpStream

libgit2's thread (`main`), the sending goroutine (`sender`), the pipe, the
WaitGroup and net/http's reader of the body interleave.  `body` has the chunks
that each request read.  Run `http_stream`: two
chunks and three requests (`MaxChunks`, `MaxAttempts`; a first answer, a
retry, and one more), every action.  49,383 states.  It shows that Read waits
for the request, that no chunk goes out in two requests although a retry uses
the same pipe, that no response stays unclosed once the caller is done with it,
and that calls return.  Fairness: the goroutine
runs; net/http reads a body and closes it; the server answers once it has the
whole request (`AnswerIsDue`), and not necessarily before.  No fairness is
assumed of the caller between calls.

### Ssh and ManagedSsh

In `Ssh`, `client`, `session`, `stdin`, `stdout` name the connection each is of,
so that leftovers of a failed Action can be seen.  Any step of a connection may
fail.

`ManagedSsh` puts it under the layer: an Action of `Subtransport` is ssh.go's
reuse of its stream, or its close of the old connection, wait and new
connection, in that order, and only then the layer's own part.  `layered` is
false for ssh.go called alone, in any order, which libgit2 does not do; the
kinds other than ssh's go on as `Subtransport` says.
Run `managed_ssh`: five actions and four connections, outputs that fit the
window: every pair of actions, Close, re-use and a failure before and after
each.  451,480 states.  `ImplementsSubtransport` is the refinement;
`HeldIsConnected` says that what libgit2 holds after any failures is connected
and serves what it asked for.  Fairness: a command sends what the window takes,
and ends when it can; Close goes on when Wait returns.

### Remotes

`remotes` and `pointers` are the two maps, `ptr` and `repo` fields of a
`*Remote`, `live` what C has allocated.  The collector finalizes what is
not `Reachable`; the maps count as references, as they do in the code, and so
does the `subtransport` of a remote that has connected, since the handle list
keeps it.  Shutdown takes all remotes out of `remotePointers` and frees them one
by one beside the collector.
Run `remotes`: two goroutines and the collector, two repositories, two
addresses used again for three remotes.  556,108 states.  Fairness: what has
begun goes on, and the collector runs in the end; user code may hold or forget.
`DroppedIsFreed` is about remotes without a subtransport: one that has connected
through a managed transport and is then forgotten is never freed, because its
subtransport, which only `git_remote_free` frees, keeps it.

### WrapperMethods and Lifetimes

A wrapper is a Go struct around a C pointer, with a finalizer that frees the C
object.  `WrapperMethods` is the table of what the methods do, file by file: the
C calls (`use`), the copies from C's memory (`read`), the KeepAlives, the
wrapper that is built, and the order of them.  `Lifetimes` runs them.  `heap`
has the wrappers: class, Go field (`up`), the C object they point to (`obj`)
and that one's own dependency (`on`), its state (`c`), the pointer and the
finalizer.  `held` is what the caller has in variables, `op` the method that
runs and its step.

Go keeps a variable alive up to its last mention, and no longer: the arguments
of a C call are read before it.  `Mentioned` says which variables a step and the
later ones still name.  A finalizer runs when nothing held or mentioned reaches
its wrapper, nor another finalizer's wrapper does (`HeldByFinalizer`, which a
cycle satisfies for itself).  What libgit2's objects need of each other
(`NeedOf`) is external: what comes from a repository needs it, an iterator what
it walks.  Whether a stream, an indexer or a blame needs the Odb or the
Repository while it lives is not to be seen in src/, and is not assumed.

Run `lifetimes`: three wrappers (a receiver, an argument and a result, or a
Repository, its child and that one's child) of every class, all methods, one
goroutine and the collector, which may act between any two steps.  The bound
`Together`, a constant of the module, lets two wrappers of this run exist at once
only when one is a Repository or some method has to do with both (`Related`); the
proofs hold for every `Together`, also the one that forbids nothing.  A Remote is kept by the maps while its Repository
is open (`Tracked`).  About 668,000 states up to symmetry.  It shows that the
KeepAlives and the repo fields suffice for all methods but those in `Unkept`
(below), that no object is freed twice, also where a backend changes its owner,
and that no constructor but those of `Unfreed` forgets the finalizer.

## What the runs show

Passing: `handle_list`, `callbacks`, `payloads`, `transports`, `managed_ssh`,
`http_stream`, `remotes`, `lifetimes`.  For each property there is a mutant in
`PROJECT.json` (a definition beside the true one, commented as a mutant) that
breaks it.

Violations, each a place where the code does not do what its text says:

* `payloads_checkout`: a checkout with a NotifyCallback and no ProgressCallback
  panics at the first progress report (checkout.go:132): C is given both
  functions and only one payload.
* `transports_shutdown`: Shutdown clears the handle list before it frees the
  remotes, whose subtransports' free callback then panics (git.go:181).
* `rebase_callbacks`: a checkout callback that fails in Rebase.Next or Abort
  writes to the error variable of InitRebase and leaves no text with libgit2
  (checkout.go:120): the caller is told the error of an earlier call.
* `http_stream_hard_error`: `recvReply.Done` runs before `httpError` is stored
  (http.go:182): a Read in between dereferences a nil response.

Close of an SSH transport waits for a command that waits for its output to be
read (ssh.go:179): the run `managed_ssh` shows that Close returns as long as the unread
output fits the window, and no more can be said.

The methods in `Unkept` (Lifetimes) reach a freed object in the model when the
caller forgets the wrapper during the call: they have no KeepAlive, or copy from
C's memory after it, or keep one of two objects only.  They are
`Reference.SymbolicTarget`, `ReferenceNameIterator.Next`, `Branch.Name`,
`Commit.ExtractSignature`, `Note.Author`, `Id` and `Committer`,
`Rebase.OperationAt` and `Next`, `Blame.HunkByIndex` and `HunkByLine`,
`Index.AddFromBuffer`, `Mempack.Dump` and `Reset`, `Refspec.Direction`, `Force`,
`SrcMatches`, `DstMatches`, `Transform` and `Rtransform`,
`Credential.HasUsername`, `Type`, `GetUserpassPlaintext` and `GetSSHKey`,
`Submodule.FetchRecurseSubmodules`, `Remote.Name`, `Url`, `PushUrl`, `Ls` and
`PruneRefs` (of a remote whose weak Repository was freed, which untracks it);
and for their argument `SetRefdb`,
`CreateCommit`, `CreateCommitBuffer`, `TreeBuilderFromTree`, `CheckoutIndex`,
`ResetToCommit` and `ResetDefaultToCommit`.  `OdbObject.Data` says that it is so.
A Repository's own methods are safe without KeepAlive only because its
collections point back at it (repository.go:48-54): Go runs no finalizer of an
object on a cycle, so a Repository that is not freed by hand is never freed.
The classes in `Unfreed` are those that some constructor makes without a finalizer.

Seen while reading, without a run: MergeBases never frees the array of C
(merge.go:326-405); ConfigIterator.Free calls C.free on git's iterator; the
Submodule that Foreach's callback is lent has no repository.  Clone dereferences nil options
(clone.go:35); the FileOpenFlags of checkout options are never copied
(checkout.go:142-180); PushHead and HideHead drop their error (walk.go:108, 163); Free
of a weak remote dereferences its nil repository (remote.go:621); Close of an
SSH transport whose session was never made dereferences nil, and its network
connection is never closed (ssh.go:175-184); the POST of a push goes to the
listing URL of git-upload-pack (http.go:92); a stateless subtransport that
gives one stream for ever would crash (transport.go:398); Repository.Free may
untrack by a stale address if a remote is freed meanwhile (remote.go:790).
Fetch, Push and Connect ask whether a callback has set their variable, and not
which callback failed (remote.go:1058): when a subtransport gets over an error of
the credentials callback and later fails by itself (transport.go:467), they
return the earlier error.  It is often the better one (http.go and ssh.go hand
the credentials' error on, some of it wrapped), and no text says which it should
be.  A certificate or credentials callback that is not set gives a code without
a text (remote.go:386, 460), which MakeGitError may pair with an older text.

## What is proved

For every number of goroutines, addresses and values (`HandleListProofs`): type
correctness, `MapAccessExclusive`, `OwnedResolves`, `FreesOnce`,
`NothingLeaks`, that Get finds its value, and `ImplementsTable`.
The only assumption is that `None` is no other constant's element.
`OwnedResolves` is not inductive: that a stored value is not overwritten needs
that `C.malloc` gives out no address that is in the map, which needs that no
address leaves the map before it is freed or is freed before it leaves the
map.  IInv says so: `Places` (what each pc implies of op and
arguments), `Locked` (pc and the RWMutex), `Addresses` (an address is in the
map, or in the hands of one goroutine that `Holds` it), `Stored`, `Resolves`,
`Accounted` (every address is somewhere).  One lemma per action, one step per
conjunct.

For every number of goroutines and threads and every depth (`CallbacksProofs`):
type correctness, `ReportsTheCause`, `ErrorStays`, `KeepsTheObject`.  IInv:
`Threading` (a goroutine with a call open has a thread to itself), `Nesting` (all
frames but the innermost are in a callback, and a callback's variable is that of
an open call that looks at it), `Failures` (what a call that is back from C has
in its hands, the code with the variable or with the thread's text, is the cause:
`Told`).  `ReportsTheCause`, and so its theorem `RightError`, leaves out what
remote.go:1058 does with a subtransport's error when an earlier callback of the
same call has failed (`EarlierErrorWins`); there the earlier one is returned.

For every number of goroutines, repositories, addresses and remotes
(`RemotesProofs`): type correctness, `PointersResolve`, `FoundByTransport`,
`FreesOnce`, `NothingLeaks`.  A `*Remote` keeps its `ptr` after it is handed
over, so that two may have the same address.  IInv therefore tells apart those
that own what they point at (`Owns`: with a finalizer, or in the hands of a
goroutine that has not freed it yet).  An address has one owner (`Owners`), a
remote is in one pair of hands (`Exclusive`), the maps have only owners
(`Maps`), and an owner is in both maps while its repository is open
(`Tracked`).  `Todo` is why Repository.Free and Shutdown may free without asking:
what they took out of a map has an owner that nobody else can reach.

For every number of calls, holders and handles (`PayloadsProofs`): type
correctness, `PayloadsResolve`, `FreesItsOwn`, `NothingLeaks`, for all the
bindings of the table.  IInv follows each part of a holder: not populated (it
is in the call's list, and C has nothing of it), populated (its entry is in the
handle list: `Handed`), freed (it is out of the list and has no entry: `Kept`).
`ToDo` says that a list has no part twice, and `Working` that a holder has one
call, so a part that is out of the list stays freed.  What the proof needs of
the table is stated once (`BindingFacts`, `ListFacts`, `PartFacts`): lists name each part
once, parts are disjoint, and what is populated is freed.

For every number of goroutines, protocols, remotes and handles
(`TransportsProofs`): type correctness, `RegistryResolves`, `UserKeepsTransport`,
`NothingLeaks`.  git_transport_unregister takes out whatever stands for the
protocol, while New, Free and Shutdown untrack the handle that they know of.  So
IInv says that what libgit2 has is held by one of the library's map, user code
and an operation before its unregister (`Registry`), that no two have the same
handle (`Exclusive`), and that what an operation is left with after it is in no
list (`Places`).

For every number of Actions, connections, output and window (`ManagedSshProofs`):
`ImplementsSubtransport`, type correctness, `FreedOnce`, `HeldIsConnected` and
`SessionsAreAccounted`.  `LayerInv` is kept by every step of Subtransport,
`SshInv` by every step of Ssh, also in an order that the layer never takes, and
`Joined` relates them: what libgit2 holds is the stream that ssh.go has, and a
connection is made only after Close.  Simulates then gives a step of
Subtransport, or a stutter, for each step of the composition.  Assumed are the
kind of the Go side that ssh.go is (`SshKindAssumption`, from transport.go and
ssh.go: not stateless, the stream of a listing is given again) and that a Go side gives a new
stream for each Action if and only if it is stateless (`ReuseAssumption`; a
stateless one that gives one stream for ever would crash, see above).

For every number of writes and attempts (`HttpStreamProofs`): type correctness,
`WaitsForTheRequest`, `WrittenIsSentOnce`, `NoResponseIsLeft`.  IInv: which
places of libgit2's thread and of the sender go together (`Phases`), what the
fields are worth at each (`Outcome`), and in which body each chunk is (`Sent`).

For every number of wrappers (`LifetimesProofs`): type correctness,
`NoUseAfterFree`, `FreedOnce`, `NothingLeaks`.  First the table: `MethodsSound`
goes through all the methods and shows that each is in `Unkept` or has a
KeepAlive, a field access or a wrapper to build that points back at or after
its last use (`Keeps`; the methods of a Repository need none), and that it
builds and takes what Go's types let it (`Builds`, `Handles`).  A method taken
out of `Unkept`, or one added without its KeepAlive, fails there.  Then the
heap: `Shapes` (which classes point to which, so that the C objects behind a
wrapper are its own, that of its Go field's wrapper, or a Repository's),
`Status` (a live C object that its wrapper owns has the finalizer, which goes
before it is freed), `Operation` (what a running method has in its variables)
and `Alive`: each C object behind the receiver and the argument is live, or it
is no Repository's and the method mentions the variable no more.  That is the
invariant that the collector keeps: it takes nothing that is mentioned, nothing
that the field of what is mentioned points to, and no Repository at all, since
that is on a cycle.

All of these are theorems of the modules' `Spec`, without fairness.  Where a
module takes values from sets that are its constants, `None` is assumed to be
in none of them; bounds are natural numbers.  Each proof has one lemma per
action, with one step per conjunct of IInv, and TLC checked each IInv on the
module's run before it was proved.

Only model-checked: liveness (`CallsReturn`, `CloseReturns`, `DroppedIsFreed`),
which TLAPS cannot prove.

## What is not modelled

Conversions of options and results, enumerations, aliases, link flags and the
results of the bindings that forward to one C function.  `Write` and the host
key check of SSH, what a subtransport does with a weak remote, and nil options in Payloads.  In Lifetimes:
several wrappers as arguments of one method at once, the second result of
RevparseExt, callbacks inside methods, and more than one goroutine.  In Callbacks: what
libgit2 does after a failure and before it returns (a subtransport whose Close
fails may leave a text of its own), a GitError whose code is none of a failure,
and the credentials that http.go asks for in its sending goroutine: SmartCredentials
is called on the goroutine of the call.  Fairness to user
code, libgit2's internal state, and OS-level failure of `C.malloc`.

## Plan

Modelled first was what everything relies on: 1 HandleTable/HandleList with
proofs, 2 Callbacks with proofs, 3 Transports, Subtransport, HttpStream, Ssh
and their composition ManagedSsh, 4 Remotes, 5 Payloads, 6 WrapperMethods and
Lifetimes.  Next, in this order:

7. `DiffForEach`: three callbacks that hand each other on, and the nil ones.
8. `Iterators`: the end of walks and iterators, Iterate stopping early, errors.
9. Pure algorithms: Oid comparison and ShortenOids against a definition.
10. HttpStream under Subtransport, as Ssh is now.
