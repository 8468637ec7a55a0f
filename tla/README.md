# Verification of the Diplomat language server

TLA+ models of the language server in `src/lsp-server`, checked with TLC and
proved with TLAPS. Paths below are relative to `src/lsp-server` unless they say
otherwise; `PROJECT.json` maps every definition to the lines it stands for.

## The system

The server (`main_lsp.cpp`) speaks JSON-RPC over stdio or one TCP connection.
A `DiplomatLSP` is a `BaseLSP`, which owns an `RPCPipeTransport`. Its threads:

| Thread | Code | Shares |
|---|---|---|
| main | `BaseLSP::run`, all handlers, the destructors | everything |
| reader | `_poll_inbox`, `_get_json` | `_inbox` under `_rx_access`, `_closed` |
| writer | `_push_outbox` | `_outbox` under `_tx_access` |
| PID watcher | lambda of `_h_initialize`, TCP only | `_closed`, through `close()` |

Everything above the transport runs on the main thread, one message at a time.
What makes that part hard is not concurrency inside the process but files that
change under it, state kept in several tables, and handlers that fail halfway.

### Components

| Component | State | Operations | Correct when |
|---|---|---|---|
| RPC transport (`rpc/rpc_transport.cpp`) | inbox, outbox, two mutexes, a condition variable, `_closed`, `_aborted`, a stop source | `get`, `send`, `close`, `abort`, constructor, destructor, the two thread loops | messages in order and accounted for, no lost wakeup, no deadlock with a blocked client, an end when the client has left |
| JSON framing (`_get_json`) | the characters of a frame, brace depth, in-string flag | one frame per call | every well-formed frame comes out, a bad one costs nothing but itself |
| Server loop (`lsp/lsp.cpp`) | session flags, bindings, callbacks of pending requests, progress tokens | `run`, `invoke`, `send_request`, `executeCommand` | one answer per request, each callback once, the session's phases respected |
| Life cycle (`diplomat_lsp_binds.cpp:184-295`, `main_lsp.cpp`) | session flags, the PID watcher | `initialize`, `shutdown`, `exit`, reboot over TCP | the server ends when its client does, and only then |
| Document cache (`diplomat_document_cache.cpp`) | black boxes, eight tables over them, time stamps, the shared source manager | `process_file`, `record_file`, `remove_file`, `refresh`, `clear_project`, lookups | the tables agree, no dangling black box, what is cached is what is on disk |
| Workspace and project tree (`diplomat_lsp.cpp:247-427`) | folders, exclusions, top level, `_project_file_tree_valid`, the source manager it lends the cache | `set_project`, `set-top`, `ignore`, `tree-from-module` | the project is the closure of its top level |
| Compilation and index (`diplomat_lsp.cpp:433-571`) | `_sm`, `_compilation`, `_index`, `_diagnostic_client` | `_compile`, `full-index`, every query | no query uses a part of an older compilation |
| Diagnostic client (`diagnostic_client.cpp`) | diagnostics per URI | report, emit, remap, cleanup | the client shows what the last compilation reported |
| Indexer (`src/indexer`) | files, scopes, symbols, references | lookup by position and by path | lookup answers the innermost scope |
| Formatter (`src/formatter`) | alignment columns | one pass over a syntax tree | sequential; only spacing changes |
| Others | | settings, TCP buffer, log sink, black box visitor, explorer, tools | conversions and I/O |

Interactions: reader to main through the inbox and `_data_available`; main to
writer through the outbox; watcher to main through `close()`; main to itself
through the made-up `exit` of the reader at the end of the stream; handlers to
the cache by calls; the cache to the file system by `exists`, `last_write_time`
and the parser, which see it at different times; an exception of any handler to
`executeCommand`, which catches it and lets the server go on with what the
handler left behind.

### What is hard to test

`PROJECT.json` lists the hazards line by line. In short: notifications sent
without the mutex of the wait; a destructor that joins a thread inside a
blocking read; a writer blocked under a mutex that main wants; a session that
is initialized twice; files edited between being read and being stamped; sets
changed while they are iterated; tables of pointers that must all forget an
object at once; handlers that stop halfway and are survived, because a command
called them.

## Modules

| Module | Models | Runs |
|---|---|---|
| `Transport` | the transport, `run()` around it, the PID watcher, the destructors, the client's end of both streams | `MCTransport`, `Transport_*.cfg` |
| `SequenceFacts` | lemmas about sequences (`Tail`, `Append`, `SubSeq`, `FlattenSeq`), and induction over a set of numbers and over a recursive function | |
| `TransportProofs` | theorems about `Transport` | |
| `RpcSession` | what a session promises its client: the abstract specification of the loop | |
| `LspServer` | the message loop, the session, nested commands, callbacks of the server's own requests | `MCLspServer`, `Lsp_safety.cfg` |
| `LspProofs` | theorems about `LspServer`, among them that it implements `RpcSession` | |
| `DocumentCache` | the cache and the file system it describes | `MCDocumentCache`, `Cache_safety.cfg` |
| `CacheProofs` | theorems about `DocumentCache` | |
| `Workspace` | the handlers that read the workspace and the project, on top of `DocumentCache`, which it extends | `MCWorkspace`, `Workspace_safety.cfg` |
| `WorkspaceProofs` | theorems about `Workspace`, which use those about the cache | |
| `DiagnosticClient` | the diagnostics of a compilation by URI, and what the client displays | with `Design` |
| `Design` | the compilation, step by step, and the handlers that use its results, on top of `DiagnosticClient`, which it extends | `MCDesign`, `Design_*.cfg` |
| `DesignProofs` | theorems about `Design` | |
| `Indexer` | scopes, symbols and references of the index, and the two visitors that fill it | `MCIndexer`, `Index_safety.cfg` |
| `IndexProofs` | theorems about `Indexer` | |
| `Formatter` | the visitor behind `textDocument/formatting`, on widths | `MCFormatter`, `Format_*.cfg` |
| `FormatProofs` | theorems about `Formatter` | |

### Transport

Each thread has a program counter `pc[t]`; a step is what a thread does between
two points where another thread can tell the difference. A critical section
that touches only its own queue (`Send`, `GetPop`, `ReaderPush`) is one step
that needs the mutex free. Where a mutex is held across steps it has an owner:
`rxOwner` while `get()` evaluates the predicate of its wait, `txOwner` while
the writer is inside a write that may block. `get()` is six steps: the check of
the flags, the first look at the inbox, the lock, the predicate, the atomic
release-and-sleep, and what follows the wait. A notification wakes main only
if it is asleep at that moment. Flags are raised and notifications sent in
separate steps, without the mutex, as the code does it.

Messages are numbered and have a kind. The kinds are the ones the transport and
the session can tell apart; `request` stands for every other message. The
filter before `initialize` and after `shutdown` is the code's. A handler is
reduced to the number of messages it sends (`Burst`). Streams are bounded
queues of whole frames; a frame that does not parse discards itself and a
prefix of what follows, since `in_avail()` says how much of the rest has
arrived. The client has one thread: while its write is blocked it does not read.

`CloseHasCause` takes any watcher that was stopped for a cause. A second
`initialize`, which the code accepts, stops the first watcher, and that closes
the medium as if the client had died: the model has it, and the property admits
it. That the destructors return is checked once the client has disconnected
(`LeavingSpec`): `StopEndsReader` below says what happens if it does not. The
end of the destructors says nothing of the caller of `abort()`, whose
notification may come later.

Not modelled here: handlers that throw anything but the two exception classes
that `run()` catches, which end the process (`LspServer` has them); SIGPIPE on a
closed connection; a payload that `dump()` refuses; characters. `_closed` and
`_aborted` are plain `bool`s, so the code has a data race: the model gives each
write its effect at once, the outcome every build we know of produces. When
`initialize` replaces a running watcher, the code starts the new thread before
it joins the old one; the model starts it afterwards, since all the new one
could do meanwhile is close the medium for the same reasons the old one does.

### DocumentCache

A black box is identified by its file, its name and the time it was read;
tables of pointers are sets of these, and `store` is what is allocated, so a
dangling pointer is a member of a table outside `store`. `process_file` is
split where it looks at the file system: at its first look (`exists`,
`last_write_time`, which picks one of four ways), at the parse, and at the
stamp. Edits and deletions happen in between. The clock is advanced by every
edit: nothing in the code depends on the order of two stamps, and an edit in
the same tick as a stamp is not later than it, which is what the code's `<=`
makes of equal times.

Exceptions. `exists`, `last_write_time` and the iteration of a directory may
throw (`ProcessThrows`), and so does `value()` when the parser finds no text
(`ParseFails`): the file was deleted, or cannot be opened. Nobody in the cache
catches them. What becomes of the server depends on the message that led there
(`Raise`): `executeCommand` catches what its command throws
(`lsp/lsp.cpp:231-237`) and the next call finds the cache as it was left, while
an exception of any other message ends the process (`dead`). So a modified file
that has left the tables (line 200) may stay out of them. A failed lookup by
`at()` is the state `threw`, which `LookupsSucceed` says is never reached, and
the undefined behaviour of an invalid iterator is `dead` too.

The source manager. `process_file` makes one when none is set and gives it back
(lines 207-208, 250); the scan of the workspace sets one for all its calls.
`texts` is what it has read, a file that could not be opened included: slang
gives the same text again, whatever is on disk by then. An exception skips the
line that gives it back, so it stays `shared`, and every later parse goes
through it, up to the next scan that comes to its end. `textAt` and `readAt` are
history: when the text was read that a file is cached with.

`refresh` iterates a set from which the call it makes erases: from then on the
model lets the loop go on with any subset of the files, or end the process.

The branch of `process_file` for a file that is in the project while it is
parsed (lines 228-229) is a disjunct of `Bind` that the invariants show is
never taken: `Owned` in `CacheProofs` says the file is in no table then.

Two properties state what is left of two promises. `KeepsProject`: a file leaves
the project by `clear_project` or by the failure of its own parse, and by
nothing else that happens to any file. `SkipIsCurrent`: a file that is taken for
unmodified is cached as it is on disk, unless it was edited between the reading
of its text and its stamp (`Raced`), a gap that a source manager left behind
makes as long as it stays.

Not modelled: `standardize_path` and changes of the workspace root (files are
their standardized paths); an exception inside `record_uri`; renames that keep the
modification time and the granularity of time stamps.

### Workspace

`Workspace` extends `DocumentCache`: `DocumentCache` lets anyone make any call
at any time, `Workspace` says which handler makes which. One handler runs at a
time. `plan` is what it has left to do, as a sequence of phases; a phase
replaces itself by the phases the code calls (`Goto`) or ends (`Done`). So
`_h_set_top_module` is `<<"tree", "compile">>` and `_compile` is a scan or a
refresh, followed by `build`, which computes the tree if it has to. A phase
moves only when the call it made of the cache has returned (`Free`), and files
change in between. `todo` holds what a loop over files has left, `stack` the
loops of the recursion `_add_module_to_project_tree`, `frontier` and `seen`
are `to_process` and `processed` of `tree-from-module`. The order in which sets
are iterated is left open.

A call of the cache that throws, and a directory whose iteration does, end the
handler (`HandlerThrows`): under `executeCommand` its remaining phases are
dropped (`Unwind`), what it has done stays, and so does the source manager of a
scan that was cut short (`diplomat_lsp.cpp:285`); otherwise the process is over.
`ScanComplete` is stated of a scan as far as it has come, so that one that was
cut short counts up to there.

Abstractions. `Deps` gives the modules a module instantiates by its name,
whichever file defines it. `excluded` stands for `excluded_paths` and for the
patterns, as a set of files. A file that appears while a directory is read may
or may not be seen. The compilation itself and the answers sent are left out;
`get_file_from_module` cannot fail, which is `NoLeak`. `tree-from-module` may
find no box for the module named, the exception that answers the client. A top
level that `set_project` does not name stays.

Not modelled: changes of the workspace folders, `didOpen` (which records a URI:
`RecordUri` of `DocumentCache`), include directories, `get_module_bbox`,
exceptions of the walk and of the compilation, which touch no file of the cache
(`Design` has those of the compilation).

### LspServer and RpcSession

`Transport` knows which message is served when, and reduces a handler to the
number of messages it sends. `LspServer` takes the messages as they come, whole
and in order, and models what is done with them: the session filter
(`Allowed`), the lookup of the method, the ways a handler ends (`Outcomes`: a
value, nothing, an `rpc_base_exception`, a `server_side_base_exception`, any
other exception), what is sent for each of them (`Reply`), and what becomes of
the server (`After`). An `rpc_base_exception` is answered with an error. A
`server_side_base_exception` is logged and the request gets no answer at all
(`lsp/lsp.cpp:506-510`): it is `dropped`, the one way out of `RequestsAnswered`
besides the end of the server. The library throws it where a client's answer is
an error (line 471) and in `get()`; no handler of Diplomat throws it itself, but
the loop would treat one that did like this. `executeCommand` calls `invoke`
again, through the filter, with any bound method, and turns other exceptions
into errors. It converts its own parameters before that, outside the `try`
(line 221): the command `unreadable` stands for parameters that do not convert,
and ends the server. `CommandsAreContained` is about the commands that do.
Requests of the server have a callback and arguments under their identifier,
which leave together (`Release`, the guard object of `lsp.cpp:32`), and answers
come late, twice, as errors or unasked for. Methods that only work on the
design are `query` and `command`, with every way to end.

`RpcSession` is the promise: a request is answered at most once, the phase
(`new`, `running`, `stopping`, `ended`) only moves forward, a refusal changes
nothing. `SessionSpec` states that the loop implements it; the phase is a
function of the three flags and of whether the loop runs (`Phase`).

Not modelled: the trace level, which nothing reads; progress tokens; the text of
errors. A notification method that is called with an identifier gets no reply
when it succeeds: the model follows the code, and the client of the model does
not do that, since `replies` would then wait for ever by the client's own fault.

### Design and DiagnosticClient

A compilation is one handler on one thread, and several steps, because each of
them can throw (`ReadFails`, `IssueFails`, the `Throw` of the indexing steps).
Then the server ends if the handler was called directly, and goes on from what
was done so far if `executeCommand` called it (`via`): everything `Renew`
replaced stays replaced. `index` says what the index was built from, since the
queries tell no more apart. `broken_emitted` is `_broken_index_emitted`, with
its three writers.

`DiagnosticClient` keeps what is reported by URI. A file has the URI of its path
and possibly another that the client opened it with; `Remap` moves the record,
the notes that name the file, and what is published. `keys` are the URIs with a
record, empty ones included: a new client takes over those of the one before,
so that `Emit` erases what is no longer reported. `display` is what the client
shows, each publication replacing what was shown under its URI.

Not modelled: the options given to slang; the severities and the wording; a
failure between the steps that is not an exception; `ignore` and `push-config`
between two compilations, which are in `Workspace`.

### Indexer

The elaborated design is a constant: `Text` holds the nodes of the syntax in
document order, and the actions are the handlers of `IndexVisitor` on the
members that the elaboration presents (`Presents`: a generate block may be left
out, the body of a loop may come again, every instance visits its module's
body). Opening a scope (`OpenScope`), finding that another child has the same
range and reusing it under an alias, leaving it (`Leave`, `Closes`) and what the
handler adds afterwards (`AfterClose`) are the code's. `ReferenceVisitor` then
goes through every file (`Refer`), with the lookups of `IndexScope` and
`IndexFile` as operators. Containers keyed by a hash are walked in any order.
Line and column are one number.

An array of instances is a block, as slang presents it, and its elements are
instances without a name (`index_visitor.cpp:70` and `:227`). They are opened
like nameless blocks; the declaration that the array has in the syntax is one
(`Declarator`). `ReferenceVisitor` selects a scope at a module's header and
forgets it at the module's end (`ReferModule`, `Kept`), which matters for what
is bound by a name in a module without being in an instance: the parameters of
a class. `ReferTo` uses the file of the place without a test; a file the index
does not have is a null pointer (`phase` is `null`, `NeverNull` below).

Three assumptions say what slang guarantees of the text, which is its data
here: `TextAssumption` (nodes are in document order, what is declared has a
place, an instance has a module, what is bound by name stands in an instance or
a module), `WordAssumption` (a word ends before the next
one begins, and a place declares one name) and `NestingAssumption` (the range of
a body is that of its text, and an identifier is a word of its own; a text that
is included twice is there twice). TLC evaluates them on `MCSource`.

`Unambiguous` is not an assumption: the language allows what it excludes. It
says that the index can tell the declarations of the text apart: no two members
of one body share a name (two branches of an `if` generate may, and so may a
package and a top of the design, which are both children of the root), no member
has the name of its module or of a block that the indexer calls `unnamedN`, no
block is included twice in one body, and what is imported is a package. Other
texts end up with two bodies in one scope, or make the visitor throw
(`NeverThrows` below). `ReferencesAgree` and `RenameFindsItself` hold of them
too; `ITypeOK`, `PathsResolve` and `BindsInScope` are claimed of unambiguous
texts only, which `MCIndexer` asserts that its source is.

`UnnamedIds` is the bound of the model: a block that has no name is not visited
once they are used up.

Not modelled: `get_visible_symbols`, behind completion, which compares places of
different files; the merging of `list_symbols`; the JSON dumps; members that
slang presents with a syntax of their own, such as enumerations; a module
without a header, and the parameters of a class outside of every module, where
`_instance_scope` is read before anything has set it. If two branches
of an `if` generate share a name the second replaces the range of the first
(`OpenScope` does so too; the instance has no such pair). The ports of an
instance whose scope is not found are bound in the scope around it (`Selected`).

### Formatter

Text is reduced to widths: an item has the widths of its tokens and of the two
sides of its ranges, and the trivia before it. `fmt` is the visitor: the sizes
it measured (`Measured`), the queue of its block, what it wrote. The actions are
the handlers; a block ends (`ProcessPending`) at an empty line, at an instance,
at another kind than the first of the file (`SwitchBlocType`), or at the end.
The kind of a declaration is that of its type, so `reg`, `bit` and the others
that the formatter leaves alone (`OtherTypes`) are kinds of their own. All
declarators of a declaration are measured and the first one is moved; `tail` is
what stands between it and the semicolon, the initializer and the other
declarators. What is written of an item is the trivia in front of it and the
columns of its parts. `Align` keeps the `unsigned` of `align_dimension`: a size
below zero is a huge one (`Modulus`), and the `assert`s, null pointers and
`at()` that fail are `fails`.

`Aligned` says what columns there are: names of a block are in one, and
semicolons are as far to the right of it as what stands before them is wide. The
spaces that pad an array go before the semicolon
(`format_DataDeclaration.cpp:252-259`), after the tail: the semicolons of two
declarations are in one column only if their tails are as wide. `FailuresKnown`
lists in `Hazardous` every shape that makes the formatter fail: an instance
without parameters or with `.P()`; a list of ports with an explicit one,
`.p(expr)`, or with two or more when the file does not begin with ports; a
signed type that no other type of its block exceeds and no bracket follows; and
an empty bracket, `[]`, whose specifier is null, but after a type the formatter
does not know.

What an item may be is `Declares`, `Port`, `Assignment`, `Instance` and
`PortList`. Two facts of the language are in them: the keyword of a logic type
has five characters, and a port without a net type has a direction and perhaps
`var`, which is shorter than any direction. `MaxWidth` and `MaxParts` bound the
widths of tokens and the number of modifiers and ranges of one item;
`WidthAssumption` says that a line of such items fits an `int`, which no part of
the code checks. It is needed: with a `Modulus` that a line can exceed, a size
wraps and the columns are anywhere.

A dimension is `[left:right]`, or `[n]`, which the code measures as two halves;
the brackets without a range, `[$]`, `[*]` and `[]`, keep their width, are
counted by the measuring and passed over by the writing.

Not modelled: `StatementExpansion`, which the command line uses; the indexed
part-selects `[a+:b]`, which are not legal there and throw; types named through a
package, of which the code measures the first word only; modifiers of the ports
of an interface; the `const` keyword; whether trivia lie together in the arena
(`spacing_manager.cpp:165`).

## Runs

| Run | Checks | Shows |
|---|---|---|
| `transport_safety` | 6 invariants | all interleavings with 2 messages of every kind, handlers that send up to 2, `abort()` at any time |
| `transport_serving` | `ClientNeverStuck`, `RepliesReachClient` | 5 messages through streams of one message |
| `transport_ending` | `DisconnectEndsServing`, `ServerEnds` | 2 messages of every kind, a disconnect or a death at any time |
| `transport_deadpid` | `DeadPidEndsServing`, violated | the wakeup of `close()` can be lost |
| `cache_safety` | 7 invariants, `KeepsProject` | two files, two names, two edits, any sequence of calls, exceptions anywhere |
| `workspace_safety` | `ScanComplete`, `WalkComplete`, `SearchExact`, `HandlersEnd` | two files, three modules whose dependencies loop, one edit, any sequence of handlers, exceptions anywhere |
| `lsp_safety` | `LTypeOK`, `SessionSpec`, `RequestsAnswered`, `CommandsAreContained` | any messages in any phase, handlers that end in every way, three requests |
| `design_safety` | `DTypeOK`, `ProblemsExact`, `IndexCurrent` | any sequence of compilations that fail anywhere, openings and queries |
| `design_null` | `NoNullUse`, violated | queries use an index or a compilation that is gone |
| `index_safety` | `ITypeOK`, `ReferencesAgree`, `BindsInScope`, `PathsResolve`, `RenameFindsItself` | a design with a package, a loop, conditions, headers, an array of instances and a module instantiated three times |
| `format_safety` | `SizesFit`, `WrittenOnce`, `Aligned`, `FailuresKnown` | every file of up to four items of twenty-three shapes |
| `format_glue` | `NamesKeptApart`, violated | the space before a name is lost after a type the formatter does not know |

The three violated properties are lines of the documentation that the code does
not keep.

- `DeadPidEndsServing` ("should exit/kill the server when the watced PID stop
  running"): `close()` raises `_closed` and notifies without `_rx_access`, so
  both can fall between the test of `get()`'s wait and the wait itself.
- `NoNullUse` ("Checks that the index is in a working state and may be used"):
  `full-index` under `executeCommand` resets the compilation and then reads a
  directory that is gone; the index of before passes the check and
  `get-hierarchy` uses the compilation. `list-symbols` does not check at all.
- `NamesKeptApart` ("In case of doubt, do nothing !"): for any type other than
  `logic` and a name, zero spaces go before the name: `reg a` becomes `rega`.

Bounds. Transport: two messages of any kind allow `initialize` followed by every
other message, `shutdown` or `exit` among them, two messages waiting or on their
way at once, and the made-up `exit` behind them; what three messages would add
is covered by the proofs, which hold for any number. An input of two and an
output of one make both ends block. Five messages through streams of one fill
every place a message can wait (client, stream, reader, inbox, main, writer,
stream), which is what `ClientNeverStuck` needs to fail. Cache: two files that
both define `a` give every sharing of a name; two edits allow one during a call
and one after it. The run begins with files that define both names or do not
exist (`MCSpec`); edits make all others. The symmetry of `cache_safety` permutes
the files, which no definition tells apart. Workspace: one file defines two
modules, so that entering one brings the other; either file may be missing, or
be a copy of the other, so that a name has two boxes (`f` exists when the run
begins, `g` may); `a` needs `b` and `c` and `b` needs `a`, so that both loops
meet a module again. One edit may fall anywhere. One top level, and one file
that can be left out, are enough for every combination of a valid or invalid
tree with and without either.

Session: three requests are `initialize`, `shutdown` and one before, between or
after them; two messages wait at once, and one request of the server can be
answered any number of times. More of each is covered by the proofs, which hold
for any number. Design: two files, so that a note names another file than its
problem; a problem in each and one that has no place; everything may fail
everywhere, so two compilations in a row show all that one leaves to the next,
and the run has no bound on their number (`refusals` stops counting at 2).
Index: the one design is small and has each construct that the visitors tell
apart; a nameless body or element comes up to three times (`UnnamedIds`), blocks
are left out or not, and the lookups that depend on a hash go either way.
Format: twenty-three items are one for each branch of the code; four in a row
are enough for a block to begin, to end and to be followed by another, and for
an item of each size before or after it. `MaxWidth` is 8 and `MaxParts` 3, as
much as any item there needs; `Modulus` is 2 to the 16 instead of 32, far above
what a line of them takes.

Fairness (`ServerFairness`). Each thread that can go on goes on: `WF` per
thread. `SF` on the steps that take a mutex: the writer sleeps 10 to 100 ms
between two uses of `_tx_access` and main holds `_rx_access` only up to its
wait, so a thread that waits for either gets it. Nothing is assumed of the
client in `FairSpec`; `ReadingSpec` adds that it reads when it is not blocked,
`LeavingSpec` that it disconnects once the server has left its loop. The last is
needed: without it the destructor may wait for ever (`StopEndsReader` below).
`WFairSpec` of `Workspace` says that the one thread which runs the handlers goes
on, to the end of a call or to an exception; nothing is assumed of the file
system or of the client. `LSpec` says that the loop takes the next message as
long as it runs (`WF` on `Serve`): the client may stop sending, send answers to
nothing, or disconnect at any time. `Design`, `Indexer` and `Formatter` state
safety only.

### Properties that do not hold

Thirteen more properties are each what a comment of the code says or implies, and
none of them holds; twelve are stated in the modules, the thirteenth is `Aligned`
without its last exception. No run checks them; TLC finds a
counterexample when the property is added to a configuration as said here.

| Property | Said at | Add to | What happens |
|---|---|---|---|
| `StopEndsReader` | `include/rpc_transport.hpp:66` | `Transport_ending.cfg` with `FairSpec`, `PROPERTY` | the reader is inside `peek()`, where the stop token does not reach it, and the client keeps its end open |
| `OutboxDrained` | `include/rpc_transport.hpp:55` | `Transport_ending.cfg`, `INVARIANT` | the destructor requests the stop right after `send()`; the writer wakes up, sees it and ends before the reply is written |
| `UnmodifiedIsCurrent` | `diplomat_document_cache.cpp:185` | `Cache_safety.cfg`, `INVARIANT` | a file is edited between its parse and its stamp, which is the current time: the edit looks older than the reading. Or an exception left the source manager behind: the text it has of the file is old already when it is cached and stamped |
| `OnlyClearProjectRemoves` | `diplomat_document_cache.hpp:218` | `Cache_safety.cfg`, `PROPERTY` | a modified file has been taken out of the tables when its parse fails; under `executeCommand` the server goes on without it |
| `RefreshComplete` | `diplomat_document_cache.hpp:91` | `Cache_safety.cfg`, `INVARIANT` | `refresh` iterates the set from which `process_file` erases: the iterator is invalid, and the files after it may be left out |
| `WalkAddsAll` | `diplomat_lsp.cpp:400` | `Workspace_safety.cfg` with `Deps <- ChainDeps`, `INVARIANT` | `a` needs `b` of its own file, which needs `c`: `record_file` put `b` into the project with `a`, so the walk takes it for visited |
| `ListedInProject` | `diplomat_lsp_binds.cpp:499` | `Workspace_safety.cfg`, `INVARIANT` | `set_project` clears the project, and a listed file that was modified is read again as the file outside the project that it is by then |
| `ExtensionsKept` | `diplomat_lsp.cpp:275` | `Lsp_safety.cfg` with `MaxAsked = 2`, `PROPERTY` | `didChangeConfiguration` asks for one setting; its callback clears the extensions and reads the second one, which is not there: no file has a known extension any more |
| `ClientUriKept` | `diplomat_lsp.cpp:576` | `Design_safety.cfg`, `INVARIANT` | the client opens a file through a link, its record moves to that URI; the next compilation reports under the URI of the path again |
| `Aligned`, without `Shorter` in `EndOf` | `src/formatter/spacing_manager.cpp:275` | `Format_safety.cfg`, the definition replaced | an array with fewer ranges than another of its block ends one column after it: what is left for the ranges it does not have counts a space before the first of them, which only an item without any range lacks |
| `MostSpecific` | `src/indexer/include/index_scope.hpp:194` | `Index_safety.cfg`, `INVARIANT` | `get_scope_for_range` looks at the children of a scope and no further: a name inside two nested blocks is looked up from the outer one |
| `NeverNull` | `src/indexer/index_core.cpp:27` (implied) | `Index_safety.cfg`, `INVARIANT` | the ports of an instance are in an included file in which nothing is declared, or only in a branch that is not elaborated: the index has no such file and its null is used (`index_reference_visitor.cpp:105`) |
| `NeverThrows` | `src/indexer/include/index_scope.hpp:136` | `Index_safety.cfg` with `Source <- BranchSource`, `INVARIANT` | two branches share a name, so both are put into one scope; a block or instance found there under another name needs an alias that is taken, and `add_child_alias` throws where its comment says that it returns `nullptr`: nobody catches it |

None of the properties that the runs check is weakened by these: `SkipIsCurrent`
says what a stamp is worth nevertheless, `WalkComplete` what the walk does not
leave behind, `BindsInScope` that a name is never bound to what it cannot see.

## Proofs

`TransportProofs` proves the six invariants of `transport_safety`, and that
nothing is delivered after the medium was closed (`ClosedStopsDelivery`), for
every number of messages, every stream size and burst, with and without a
watcher or an aborter. The inductive invariant adds three parts to the
properties themselves: `Locking` (who may own a mutex at which program counter:
`NoSleepOnMessage` holds only because nobody pushes between the predicate and
the sleep), `Ending` (the order in which threads end) and `Numbering` (which
numbers the end of the stream leaves possible). Each part has one lemma that
every step preserves it, with a step per action. `NothingLost` and `InOrder` go
through the few actions that move a message (`Carrier`); every other action is a
`Bystander` that leaves them alone.

`CacheProofs` proves the seven invariants and `KeepsProject` of `cache_safety`,
and that no set of boxes is kept empty (`NoEmptySet`), for all files, modules,
contents and numbers of edits. The invariant `IInv` strengthens them by `Owned`
(a file being read again is in no table, and boxes are bound only to files that
have an entry) and `Distinct` (one box per file and name). `SkipsAreCurrent`
needs a second invariant, `Current`, about time: a file whose stamp is younger
than its last write, and was parsed after it, is cached as it is. With a source
manager that stays, `Current` also follows what it has read: the text of a file
that was not written since is what is on disk (`LoadedKept`). An exception
(`RaiseStep`) leaves the tables as they are, so the invariants are those of any
state between two steps of a call, and `IInv` has to hold with the file of a
failed parse in no table.

`WorkspaceProofs` uses what `CacheProofs` proves of a step of the cache: the
handlers change it by its own actions only, which `StepCalls` puts into one
lemma. Its invariant
`WIInv` adds to that of the cache what may wait behind a phase (`RestPends`:
only `compile`, `build` and `query` do, so no phase finds another one's loop
half done). Three loop invariants stand on it. The walk's (`WalkInv`) says that
each dependency of a module it entered is in the project, defined nowhere, or
in a loop that runs: it holds because `record_file` never takes a name out of
the project. The search's (`SearchInv`) bounds what was found from both sides:
all of it is needed, and what is needed is found or waits; with an empty
frontier the two meet, which is `SearchIsExact`. An exception empties the loops
with the plan. `WalkStaysComplete` is about the modules that the walk entered:
one that came into the project with its file is never entered, and what it needs
may be left out (`WalkAddsAll`). The scan's (`ScanInv`) follows
each file it has passed through the call that reads it; with `Current` of the
cache, which says what a stamp is worth, it gives `ScansAreComplete`.

`LspProofs` proves that the loop implements `RpcSession` (`LoopIsSession`), for
any number of requests, messages and requests of the server. A step of the loop
maps to one step of the session or to none: a request that is sent to `Ask`, a
value to `Accept`, an error to `Refuse`, a disconnect, an `exit` or an exception
that nobody catches to `End`. Two facts about the past make it inductive.
`Pending`: a request in the inbox waits for its answer and is there once, or
answering it twice would be possible. `Ordered`: what is stopping was
initialized, and what runs was not stopped. `Served` sums up what any method,
called directly or through `executeCommand`, may do to the session for each way
it ends, so that the step of the loop is proved once for all of them. The bound
on the server's requests (`asked + ToAsk <= MaxAsked`) needs the count of the
messages still to be served that will send one (`AskingTail`, `AskingAppend`).
`CommandsStayContained` and the types (`LTypesHold`, with "a callback finds its
arguments") come from the same invariant.

`DesignProofs` proves the three invariants of `design_safety` for all files,
problems and places. `ProblemsExact` is the one that is not inductive. It needs
`Shown`: a URI under which something is displayed has a record, which is what
makes `Emit` replace everything, and which must survive compilations that were
cut short. `Issued` follows a compilation: its records hold what it reported,
one each, on paths. `Settled` is the state in between: records and display are
the same and a file has one URI, so `Remap` never meets a record under the URI
it moves to, the case in which it destroys one (`RemapSettles`). The index needs
only to be followed through the phases (`Indexed`), and the flag of the broken
index a relation to the refusals since (`Told`).

`IndexProofs` proves the five invariants of `index_safety`, for any order of the
visits: `ReferencesAgree` and `RenameFindsItself` for any source text, `ITypeOK`,
`PathsResolve` and `BindsInScope` for any that is `Unambiguous`.

Four invariants stand on each other. `ReferencesAgree` comes first. The records
of the files and the lists of the symbols are changed together by `AddSymbol`
and `AddReference` (`AddSymbolAgrees`, `AddReferenceAgrees`), but only if the
symbol that a reference is added to is declared, and that symbol comes from a
lookup. So the invariant (`IdxInv`) also says that every name of every scope
stands for a declared symbol (`Known`), which is followed through the ways a
scope comes to be: a new child, a duplicate under an alias, and a name given to
a scope that was closed before (`ChildNames`, `AliasNames`, `AfterCloseAgrees`).
`RenameFindsItself` needs to know what may be recorded: words of the text and
places that declare (`RecInv`). No such place begins inside another, so the last
record that begins before a character of a reference is the reference itself
(`RecordFound`).

`ITypeOK` and `PathsResolve` follow from `TreeInv`: some function gives every
scope the body of the text whose members it holds. `Tree` says what that means:
a scope has the range of its body, a name that its body was visited with, and a
parent whose body that one is a member of (`Branched`, `Bears`), an alias is
another such name (`Aliased`), no two children of a scope have the same body
(`Siblings`), which is what finding a duplicate by its range amounts to, and
what is declared in a scope is declared in its body (`Written`). `Visiting` ties
the frames of the elaboration to the stack of open scopes. The tree is kept
through each way `OpenScope` may go: a scope that finds its twin (`AliasTree`)
or becomes a new child (`GraftTree`), and through what the handler adds when it
leaves (`LeaveTree`, `RegisterTree`). A path then leads to the scope of its body
by induction on its length (`Leads`, `ResolveLeads`). `TreeInv` quantifies over
functions, so no run evaluates it, only what follows from it.

`BindInv` adds what was recorded: every record is the place of a declaration,
a port or a type, or an identifier bound to what it can see (`Settled`), and
what a file imports are packages (`Sought`). What is visible in a scope is
declared in the text around its body (`VisibleOutward`, by induction from a
scope to its parent, `DownTheTree`); a scope found by its range has a body
whose range covers the identifier (`RangeScope`), so its text holds it
(`NearBound`, by `NestingAssumption`); and each lookup of `ReferenceVisitor`
starts from such a scope or from an imported package (`FarBound`,
`LookupBound`).

`FormatProofs` proves the four properties of `format_safety`, for any file of
any length, any widths and numbers of parts. What the formatter computes are
folds: sums of widths, maxima, a pass over the trivia, the ports of a list. The
library's induction theorems take an operator and cannot be instantiated here;
`Induction` of `SequenceFacts` takes a set of numbers instead, which is enough,
and `Recursion` gives the recursive functions of `Formatter` their equations.
The invariant (`FInv`) says three things of the visitor. `Sized`: what was
measured is what the pending items need, `SizesFit` itself, with the lemma that
widening by one item turns the maxima of a set into those of the set with it
(`WidenCovers`, `WidenPairsCovers`), applied to all declarators of an item.
`Settled`: what is written keeps its comments, is in columns with the rest of
its block, and does not come after a block that is still pending. It stands on
the arithmetic of one item: whatever an item lacks of the modifiers and ranges
of the block, `AfterModifiers`, `TypeFormat` and `Align` give back (the name
starts where the sizes of the block say, which no part of the item enters), and
no intermediate value leaves the range in which an `unsigned` and an `int` agree
(`WidthAssumption`). `PlacesOf(Traced(fmt)) = ExpectedOf(file)`: what is written
followed by what waits is the file, in order. A failure is traced back to an
item of the file (`FailsFacts`), which is `FailuresKnown`.

The proofs assume what the modules' `ASSUME`s say of the constants and nothing
else.

With that every invariant and every action property of the passing runs is
proved, three of `Indexer`'s under `Unambiguous`.

Only model-checked:

- liveness (`transport_serving`, `transport_ending`, `HandlersEnd`,
  `RequestsAnswered`), which is outside the prover's reach;
- the counterexamples of the runs that expect a violation and those of the table
  above, which are traces.

## Not modelled

- The automaton of `_get_json` over characters. `Transport` takes a frame as one
  that parses or does not. What it would show is known: `rpc_transport.cpp:98`
  looks at one character before a quote, so a string that ends in an escaped
  backslash keeps the automaton inside the string, and what follows is swallowed.
- `_closed` and `_aborted` as the data race they are: the models give a write its
  effect at once.
- The log sink (`include/lsp_spdlog_sink.hpp:32`), which calls `send()` under its
  own mutex: a thread that logs inside `send()` would enter the sink again.
- The `TCP` buffer, settings, the visitor of `get_module_bbox`, the dumps and the
  command line tools: conversions and I/O.
- The parser, the elaboration and the analysis are slang's, which is not part of
  the repository: a file has contents, an elaboration presents members, a
  compilation reports problems.
- `ignore` and `push-config` leave files in the cache and the tree that the next
  compilation no longer wants (`diplomat_lsp_binds.cpp:728` and `:539`);
  `Workspace` has both handlers, and no document says what should be true
  afterwards.

## What could follow

- `Framing`: the automaton of `_get_json` against a definition of a frame.
- The composition of `LspServer` with an abstract channel that `Transport`
  implements; so far they meet at the order and completeness of messages
  (`InOrder`, `NothingLost`), which `LspServer` takes as given.
- Completion, which reads the index by place across files.
- Changes of the workspace folders.
