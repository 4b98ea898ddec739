# Verification of the systems-programming labs

The repository holds the labs of three courses in C: CSC4103 (the language and
its system calls), CSC4508 (operating systems) and NET4102 (network
programming). Its fourth directory, CSC4524, holds a note and a data file, and
no program. This directory holds TLA+ models of the programs that have
behaviour worth checking, the TLC runs that check them on small instances, and
proofs, for every value of the constants, of all the safety properties that
those runs check.

Names of actions, states and variables are those of the code, in French where
the code is in French.

Short paths used below:

| short | path |
|---|---|
| `benchmark/` | `src/CSC4508/ConceptionOS/Cours4_ComInterProcess/CommInterProcessus/benchmark/` |
| `msg_queue/` | `src/CSC4508/ConceptionOS/Cours4_ComInterProcess/CommInterProcessus/msg_queue/` |
| `DM/` | `src/CSC4103/DM/` |
| `DM1/` | `src/CSC4508/ConceptionOS/DM1/ArbreAVL/` |
| `TP10/` | `src/CSC4103/TP10_Exam/` |
| `NET/` | `src/NET4102/` |
| `Web/` | `src/CSC4508/ConceptionOS/DM2/ServeurWeb/Question1/` |
| `Exo/` | `src/CSC4508/ConceptionOS/Cours8_ClientServeur/Exo/` |
| `TCP/` | `src/CSC4508/ConceptionOS/Cours8_ClientServeur/TCP_and_libevent/` |

## 1. Inventory

### Modelled

| component | state it keeps | operations | what makes it correct |
|---|---|---|---|
| `benchmark/tableau_semaphore.c` | circular table, two semaphores, a mutex, two indices | distributor fills a slot and posts; handlers wait, copy, post, treat, stop | no slot is read while written or overwritten unread; each request handled once; the program ends |
| `benchmark/cond.c` | same table, two counters, one mutex, two conditions | the same, with `pthread_cond_wait` and `signal` | the same, and no wake-up is lost |
| `benchmark/tube_416.c` | pipe of bytes, a mutex | write a length then a body; read a length then a body | the two reads stay aligned with the two writes |
| `benchmark/tube_malloc.c` | heap blocks, a pipe of addresses | allocate, fill, send the address; receive, treat, free | one owner per block, no leak, no use after free |
| `benchmark/tube_4096.c`, `file_messages.c`, `file_messages_posix.c` | pipe or named queue of whole requests | send, receive, remove the queue, start again after a kill | an invocation handles its own requests; leftovers come only from kills |
| `msg_queue/` echo servers and client | two named queues, a registration for notification, descriptors | open, notify, receive, reply, unlink | one handler at a time, replies go to who asked, requests are served |
| `DM/memory_alloc.c` | array of pages threaded by a free list | init, reorder, allocate, free | the list is exactly the free pages, allocations are disjoint |
| `DM1/arbreAVL.c` | the nodes of an AVL tree, in the heap | insert, get, release | no node lost or used once freed, search order, balance, exact heights; it is a dictionary |
| `NET/Corrections/TP2_TP3/tchaton.c` | `sock_reader`, `sock_writer`, a buffer and an index per thread, connections | enrol a writer or a reader, receive, broadcast, release | each slot has one owner, no pseudo twice, no reader forgotten; a writer that quits frees its place |
| `TP10/` chat | the array of `poll`, a list of clients, lines or pieces of lines not read | accept, read the pid, run a command, send to all, delete | array and list agree; a line is read |
| `NET/` echo loops (`echoSelect…`, `echoPoll…`, `TP4/server.c`) | descriptor set and `fdmax`, `ufds` and `squeeze`, `clientList` | accept, answer, forget or squeeze, quit | every client that is there is watched, once; places are not lost; a request is answered |
| `Web/` | one thread per connection, open descriptors, `compteurReponse` | accept, read to the blank line, count, answer, close | numbers of answers differ; each request is answered and its descriptor closed |
| `Exo/Q1..Q3` name servers | a request queue; one buffer, a pipe of addresses, or a pipe and a thread per letter | ask, dispatch, look up, answer | nobody gets another's answer; everybody gets one |
| `TCP/` servers and client | waiting and served connections, a counter per connection | connect, send, answer, `REQUETE_KO`, close | a client that dies ends no server; answers carry the number the client expects |
| `Cours5_Synchronisation/exo5`, `Cours6_Threads/imprime3.c` | ring of file names, two semaphores or two counters | take a place, copy, advance, print, give back | each name is printed once, in order |
| `CSC4103/TP8_Semaphore/exo3/bank.c` | a file, a named semaphore | wait, read, truncate, write, post | the account is the sum of what was paid in |

The request servers of `benchmark/` interact through nothing but their medium:
the main thread (*distributeur*) draws requests from `simulateur.c`, sends them
and then one end message per handler; the handlers (*traiteurs*) receive,
give each request to the simulator, and stop at an end message; `main` joins
them. The echo servers interact with client processes through two queues that
have names and outlive processes.

The servers below the first eight rows interact with their clients through
connections that either side may drop, and inside through tables, lists, a
counter or a ring that several threads share, or that one loop goes over while
it changes them.

Behaviours that are hard: interleavings of the distributor and the handlers on
a slot (one side of the semaphore version takes no lock), spurious and lost
wake-ups, writes longer than `PIPE_BUF`, addresses that are used again, a killed
process whose queue is inherited, a notification that is not sent because the
queue was not empty, allocations after arbitrary frees, rotations that leave a
height to be updated by the caller; for the servers, tables that threads search
and then fill without a lock, a peer that leaves between two calls (a read of 0,
a reset, `SIGPIPE`) or stays and does not read, an array that changes while a loop goes over it, descriptor
numbers used again, fields that nothing initialises, a request or a line that
arrives in pieces, a process killed while it holds a semaphore.

### Not modelled

| component | state and behaviour | why not, or when |
|---|---|---|
| `Cours4/shm` | two processes and one flag | demonstrations of the calls; `pingpong` waits for its peer in an empty loop and never reads what it left |
| `imprime0.c` to `imprime2.c`, `imprime3Client/Server`, `exo4` spoolers | the ring of `imprime3.c` | earlier steps of the exercise whose last step is modelled |
| CSC4103 TP1–TP9 but `bank.c`, NET4102 TP1 | exercises on one construct or system call | no state beyond a function; the signal and process exercises are a loop around one call |
| `Cours2`, `Cours3`, `Cours7` | programs that measure time | results are timings |
| `NotionCompilationTraduction` | scanners and parsers | `yylex.c` and `yyparse.c` are generated by flex and bison |
| `libevent-2.1.8-stable` | event library | third-party, kept beside the server that uses it; `ServeursTCP` models the loop as that server uses it |

Libevent and the generated scanners and parsers are by far most of the C
lines of the repository. The programs written for the courses that keep state
across steps, and have an order of events to get wrong, are those of the first
table.

## 2. Modules

```
Distribution ── DistributionProofs
   ▲  (refinement, INSTANCE … WITH)
   ├── SemTable     ── SemTableProofs
   ├── CondTable    ── CondTableProofs
   ├── PointerPipe  ── PointerPipeProofs
   ├── FramedPipe   ── FramedPipeProofs
   └── QueueServer  ──┐
       MsgServer    ──┴ QueueProofs

MCServeurs ── Tchaton, ChatPoll, EchoLoops, ServeurWeb, Nommage,
              ServeursTCP, Spouleurs, Banque ──┐
              MemoryAlloc                    ──┤
Dictionnaire ◄── (refinement) ── ArbreAVL    ──┴ CoursProofs

ProofLemmas (used by the proofs)
```

Every detailed module has an `MC…` module and a `.cfg`, but the eight servers, which
share one, as `MemoryAlloc` and `ArbreAVL` do; `Distribution` is checked through those that implement it. Operators named in comments as
*mutant* are variants of a definition with a bug in it; nothing uses them but
the mutation runs, which show that each property notices one.

**Distribution** is the abstract specification of the five servers of
`benchmark/`. A message is its rank: `1..NbReq` are requests, the following `N`
end messages. `Send`, `Take`, `Treat`, `Stop` and `Join` are all that may happen:
messages are taken in the order they were sent, a handler holds one message at a
time, and the program is over when all handlers have stopped.

**SemTable** (`tableau_semaphore.c`). One action per semaphore or mutex call and
per access to the table. A write lasts while the distributor is at `"recevoir"`
or `"fin"` and a read while a handler is at `"copie"`, so that a race is a state.
A stopping handler posts `placeDispo` a second time, as the code does. The
threads exist from the start: until the first message they can only block.

**CondTable** (`cond.c`). The distributor's critical sections are single steps,
those of the handlers three, because the distributor fills its slot outside the
mutex. `pthread_cond_signal` wakes one or more sleepers, and a sleeper may wake
with no signal (`ReveilDistributeur`, `ReveilTraiteur`): both are allowed by
POSIX.

**FramedPipe** (`tube_416.c`). The pipe is what was written and not read: lengths,
and bodies with the number of bytes arrived. A write of at most `PIPE_BUF` bytes
is atomic; a longer one goes on as room appears. A read returns what is there.
`libre` is the room left: the capacity less the bytes of `tube`.
`TailleMax`, `SizeofInt` and `Longueurs` stand for 4096, `sizeof('\0')` and the
lengths the simulator draws.

**PointerPipe** (`tube_malloc.c`). `malloc` returns any free address, or fails;
an address belongs to the thread or pipe cell that holds it.

**QueueServer** (`tube_4096.c`, `file_messages.c`, `file_messages_posix.c`). The
three programs differ in their calls only. The server may be killed between any
two steps, and started again on the queue it left; a message carries the
invocation that sent it.

**MsgServer** (`msg_queue/`). A launch picks one of the two servers, since both
use the same names and clients. `pc` has the main thread and the threads the
kernel starts for `handle_request`. A queue is numbered by the launch that
created it, `nomReq` and `nomRep` say which queue a name designates (0: none),
and every process has descriptors of its own, so that a queue goes on after
`mq_unlink`. `Notifier` is the kernel: a message that arrives in the *empty*
queue of a registered process drops the registration and starts a thread. The
client's test after its second `mq_open` reads the first descriptor
(`example_msg_client.c:42`), so `OuvrirReponse` does not fail. `Quitter` is
`exit` or a signal. `attendu` is history, set when a client sends: the oldest answer that is
due at that time, be it one that an interrupted client left. It is forgotten when another
client takes a reply from the queue first, or the server ends with that queue empty. The `sleep(2)` of the loop server and the text of requests
are left out. Starting a second server while one runs is left out too, and so is
the tool that removes queues by hand.

**MemoryAlloc** (`memory_alloc.c`). `blocks` is the array of pages: a free page
holds the next free one, a page in use what its owner wrote. Allocation is cut
at the early returns (`AllouerPlein`, `AllouerRefuse`, `Allouer`) and includes the
call to `memory_reorder`; freeing follows the loop of the code, whose bound is
modelled as written (`NbTours`). Clients free what they hold, once, with the size
they asked for. `maillon`, a recursive function, walks the free list.

**Dictionnaire** is the abstract specification of the tree: what is bound to each
key, the call that runs, and its effect, once, before it returns.

**ArbreAVL** (`arbreAVL.c`). `mem` is the heap: the nodes at their addresses, with
the pointers and the height each stores. `insert` and `release` are recursive in
the code; here a call is a step down (`Descendre`, `Entrer`), `pile` holds the
nodes of the calls that wait, and a return is a step up (`Remonter`,
`LibererNoeud`), in which the caller stores what it gets (`Retourner`), and
`insert` balances, updates the height and returns (`FinInsert`). So the states
between two returns of `insert`, where a subtree has grown and nobody above knows
it, are states of the model. The calls of `get` are tail calls (`Suivre`,
`Repondre`). A failed `malloc` or `realloc` meets an `assert` (`Avorter`). The
copies of the strings, and printing, are left out.

**MCStructures** puts these two data structures, each used by one thread, side by side in
one run: `structure` says which one is used.

**MCServeurs** puts the eight modules below side by side: `programme` says which
one runs, and the others stay in their initial state. The programs do not talk
to each other, so this is one run for eight specifications, each of which is
also stated alone (`TcSpec`, `ChSpec`, …). Their names carry a prefix where two
modules would declare the same one. In all of them a connection is seen from the
client's end: `"ouvert"`, `"clos"` once the client has closed it (the server
still reads what was sent, then 0), and `"rompu"` once the client is known to be gone, so that the
next send raises `SIGPIPE` or fails. Clients leave when they like.

**Tchaton** (`tchaton.c`). A thread per connection. Its two scans of
`sock_writer` (for the pseudo, for a free slot) and its store are steps of their
own, so that other threads interleave. The first scan reads each slot twice
(line 122), and a slot that is reset in between ends the server. The sends of a
broadcast between two waits are one step, as what each does depends on its own
reader alone; readers in `Distraits` may stop reading, and a thread whose `send`
waits for one (`attente`) stays there until that reader leaves. `recv` takes what has
arrived: several lines, of which `strcmp` sees the first, or a part of one, so
that a `quit` may come in two pieces or behind another line (`fondu`); the piece
of a line is completed by what the buffer held, and may read `quit` too. A `recv`
that returns 0 leaves the buffer as it was and the loop goes on with it, as in the
code. `tcCourse` is history: who searched while another was between its search and
its store. Clients leave only once they are accepted.

**ChatPoll** (`TP10/`). One loop over the entries of `poll`. The entry that
`handle_accept` adds lies within the bound of the running pass, with a `revents`
nobody set, and `next_cli` of a new client is what `malloc` left: both are
choices, remembered in `chTas`. A command is modelled by whom it writes to and
whom it removes. A line may come without its end: `poll` announces it and `fgets` waits
for the rest. `Distrait` may stop reading: the loop is then `"bloque"` in `fwrite`, with
`reste` still to be written to, until that client is gone.

**EchoLoops**. Three versions of one server. `"select"` has a set and `fdmax`
(numbers of closed descriptors are given out again, the lowest first), `"poll"`
has `ufds` with holes that `squeeze` removes during the pass, `"tp4"` an array
of clients. `Muet` sends and does not read: when its answer does not fit the
loop blocks in `send`. `Taper` is a line on the standard input of the first two, which
may end them, and `"clavier"` is `scanf` after a line without a word. A client that the server has closed neither asks nor leaves any
more. The cost that an operator sets and answers carry, and time-outs that only print, are
left out.

**ServeurWeb**. A request comes in segments, one read each; the code looks for
the blank line in what one read returns. The increment of `compteurReponse` is a
load, a store and a second load for the answer. Descriptors are limited, and
`accept` beyond them ends the server.

**Nommage**. `question` picks the exercise: Q1 gives each new thread the address
of the one buffer, Q2 an allocated one through a pipe, Q3 a pipe and a thread per
first letter. Names start with a letter. A request is known by its client.

**ServeursTCP**. `forme` says how many connections are served at once: one, the
threads of the pool, or all (a thread each, or the loop of libevent). The
backlog of `listen` is not modelled: waiting connections wait in order.

**Spouleurs**. `exo5` in shared memory, whose clients advance `finecrit` without
a lock and may be killed, and `imprime3.c`, whose two locks make deposits and
withdrawals single steps and whose busy waits are guards, as they behave when compiled
without optimization. The end of `imprime3.c` is one step: the printers that go on reading
the ring between its `free` (line 121) and the exit are left out. `spCourse` is history: two clients were writing at once,
or one was killed before its post.

**Banque** (`bank.c`). One process per transfer. `fopen` with `"w"` truncates and
`fclose` writes; a process killed in between leaves an empty file, and nobody
posts for it.

## 3. Runs

| run | instance | what it shows |
|---|---|---|
| `sem_table` | 2 handlers, 5 requests, 4 slots | `AccesSurs`: no slot is read while it is filled nor filled before it was read, although the distributor takes no lock and `placeDispo` is posted too often at the end. `Comptes`: what the two semaphores count. `DSpec`: it implements `Distribution` with its liveness, so that the program ends with every request handled. |
| `cond_table` | 3 handlers, 7 requests, 6 slots | `AccesExclusif`, `PasDeReveilPerdu` (a sleeping handler is never needed; the distributor sleeps only before a full table), `DSpec` with the liveness of the abstract specification. |
| `framed_pipe` | 2 handlers, 4 requests, lengths 1, 4, 5, pipe of 13 bytes | `Aligne`: a read of a length finds a length, a read of a body that body, even when writes are split, and only a message longer than `PIPE_BUF` ends the server. `DSpec`, `Termination`. |
| `framed_pipe_max` | the same, 2 requests | **violated**: `PasDEchec`, see Findings. |
| `pointer_pipe` | 2 handlers, 5 requests, 5 addresses, pipe of 1 | `UnSeulPossesseur`: an allocated block has exactly one holder, a free one none. `MemoireBornee`: memory in use is bounded by the pipe and the threads. `DSpec`, `Termination`. |
| `queue_server` | 2 handlers, 3 requests, queue of 2, 3 invocations | `InvocationPropre`: an invocation that found the queue empty takes only its own messages, handles all its requests before it removes the queue, and never sends to a pool that has stopped. `HeriteDUnTue`: leftovers come only from a killed invocation. `DSpec` and `TerminePropre` for an invocation that found the queue empty. |
| `msg_server` | 3 echo clients and one that ends the server, queues of 2, 2 launches | `UnSeulTraitement`: `handle_request` never runs twice at once and its `mq_notify` is never refused. `ReponseDue`: a client before whom nobody reads gets the oldest answer that was due when it sent its request, which after an interruption is the reply to somebody else. `SourdPourToujours`: a server that sleeps with requests in its queue never wakes. `Servie`: a running server leaves a request unread only then, or while it is blocked by replies that nobody reads (`Bloque`). `AttenteBornee`: under the first server, only the first of these leaves a client waiting. |
| `msg_server_stop` | the notify server alone, 1 launch | **violated**: `ArretSurDemande`, see Findings. |
| `structures` | 6 pages of 8 bytes, sizes 1, 8, 9, 17; 7 keys, 2 values, 8 addresses | `MemoryAlloc`, with sizes that are freed exactly: `ListeLibreExacte` (the list visits each free page once), `Disjoints`, and `TriUtile` (after a sort, be it in a call that is then refused, whatever fits at the bottom of the free memory is granted, so that a refused request that fits there is granted when it is made again). `ArbreAVL`: `SansFuite`: at every step the allocated nodes are those of the tree. `AVL`: search order at every step; balance and exact heights when `insert` has returned. `DicoSpec`: it implements `Dictionnaire`, so that `get` finds what was last inserted. |
| `memory_alloc_free` | 4 pages, sizes 1, 8, 16 | **violated**: `LibererExact`, see Findings. |
| `memory_alloc_refus` | 4 pages, sizes 1, 8, 9, 17 | **violated**: `RefusJustifie`, see Findings. |
| `serveurs` | each of the eight servers alone, 2 or 3 clients | one property of each server, and `ChacunServi` and two action properties, below |

What `serveurs` shows of each server:

| server | property |
|---|---|
| `Tchaton` | `Places`: a slot has one owner, a pseudo one holder and no reader is forgotten, unless two threads were between search and store at once; a slot stays taken by a thread that ended only after a departure without `quit`. |
| `ChatPoll` | `ListeSuivie`: the array and the list agree, up to clients that have left or hung up; the loop dies only after a departure, a full array, or dirty memory. |
| `EchoLoops` | `EchoSuivi`: when the loop waits, every client that is there is watched, once. `PlacesPerdues`: `poll` turns a client away wrongly only after two neighbours left in one pass; `TP4/server.c` never frees a place. |
| `ServeurWeb` | `NumerosJustes`: numbers of answers differ and count the answers, unless two threads were in the counter at once. |
| `Nommage` | `BonneReponse`: Q2 and Q3 never mix up clients, Q1 only when a request arrives while a thread works. |
| `ServeursTCP` | `Survit`: no departure ends the server; answers carry the expected numbers. |
| `Spouleurs` | `AnneauExact`: places are conserved, even by a kill, and without a race names are printed once, in order. |
| `Banque` | `SoldeExact`: the account is exact; a half-written one is never read. |
| all | `ChacunServi`: a client that asked is served, but for the cases that each module's `…Servi` names: besides what ends a server or drops the client, the `quit` that did not come alone and whole and the `send` that waits (`Tchaton`), the `fgets` or `fwrite` that waits (`Retenue` in `ChatPoll`), the `send` or `scanf` that waits (`EchoLoops`). |

A property that holds only without a race is stated with a history variable that
says the race took place. The states after it are explored all the same and
checked by the rest of the property; the mutants show that the condition does
not excuse other faults. The races themselves are in the models and not forbidden by the
properties; the hazards of `PROJECT.json` say where that is so.

**Bounds.** Two handlers are the least that compete for a message; `cond_table`
has three, so that a signal can wake the wrong one. `NbReq` exceeds the slots of
the table, so that indices wrap, and the table is both full and empty in some
states. The pipe of `framed_pipe` holds two short messages but not three, nor two
long ones, and
the three lengths are the shortest, the longest that fits and one that does not.
Five addresses in `pointer_pipe` are one more than can be in use. Three
invocations let a queue be inherited twice. In `msg_server` two clients make a
missed notification, three make it possible after the server has worked, and two
launches let queues, replies and half-removed names be inherited. Filling a queue of two with
replies that nobody reads, and then sending a request, takes four clients: the fourth, `c3`,
starts once `c1` and `c2` were interrupted under the first server, and the server then does
block with a request unread. The echo clients are alike, and
so are the two threads the kernel may start: `MCOrdre` lets `c1` start first, and an
idle server take `t1`. The behaviours left out differ from those kept by a renaming, and
no property tells the two apart. Seven keys give trees
with all four rotations, away from the root too; one address more than keys leaves
`malloc` a choice, which `MCOrdre` of `MCStructures` settles, as no property tells addresses apart.

In `serveurs`, two writers with one pseudo and two readers for one slot of
`sock_reader` are the least that race; three clients make a neighbour in the
middle in `ChatPoll` and `EchoLoops`, and `MAX_CLIENTS`, `MAXFDS`, `MaxFd` and
`clientList` (2 instead of 4) are small enough to fill up. In `Nommage` two of three
names share a letter. A pool of two threads serves three clients, a ring of two
places takes two names from each of two clients. `TcMax`, `MaxTube` and
`MaxFichiers` bound connections, lines in transit and names. A line of `Tchaton` comes in
two pieces at most, and a `quit` in three; one of `ChatPoll` in two, and one line of each client is in transit. `ChacunServi` is
checked of one client, `c2`, because each client more multiplies the cost of the
run. For the same reason `MCBornes` lets `c2` and `Muet` do all that clients do and the
others less: `c1` writes one line at a time in `Tchaton` and is not reset there, `c3` types nothing in
`ChatPoll`, asks nothing in `EchoLoops`, does not leave in `ServeurWeb`, and so on; and
clients that are alike come in one order. They still connect, take places and
leave where that is what the properties are about. `MCBornes` is in the MC
module only: section 5 proves the safety properties without it, and for any value of the
bounds that are constants of a module (`TcMax`, `MaxTube`, `MaxFichiers`,
`MaxLancements`, `MaxInvocations`).
Most modules do not tell clients apart, and what holds of `c2` holds of the
others. Those that do are `ChatPoll` and `EchoLoops`, where the run says nothing of the
requests of the client that does not read, `Distrait` or `Muet`, but checks that `c2` is
served beside it, and `Nommage`, where `c1` and `c2` share a letter and the run
says nothing of `c3`, which has a letter and a thread of its own. In `Tchaton`
and `Spouleurs`, `c2` takes both roles that liveness is about.

**Fairness.** Weak fairness of each thread: a thread that can go on does, as the
scheduler guarantees for runnable threads. No thread of these programs gives way
for ever to others on a lock: each handler stops after its end message, so a
finite number of acquisitions lets everybody in, and weak fairness is enough.
Nobody is obliged to kill or start a server, to run a client or to interrupt it.
Wake-ups without a signal are possible and never required.

The servers have weak fairness of the server's own steps (of each thread in
`Tchaton`, whose broadcasting threads never stop): the number of clients and of
requests is finite, so that other threads cannot run for ever instead of one that
can go on. Nobody is obliged to connect, to type, to leave or to be killed. What is
fair in a server is disabled in its initial state, so that in `MCServeurs` the
fairness of the servers that do not run holds trivially and that of the one that
runs is its own.

**Deadlock** is checked in all passing runs but three. `queue_server` switches it
off because an invocation that inherited end messages may block before a full
queue, which `InvocationPropre` describes; `msg_server` because clients of a
deaf or dead server wait for ever; `serveurs` because a server whose clients have
all been served, or that died, has nothing more to do (`ChacunServi` says who may
be left waiting). The programs that end have a self-loop
`Termine`.

## 4. Findings

- `framed_pipe_max`: `sizeof('\0')` is the size of an `int` in C, so a request of
  `TAILLE_MAX_REQUETE - 1` characters makes a message longer than the buffer and
  than `PIPE_BUF`; its write may be split, the read may come back short, and the
  server exits. `simulateur.h` says such a request is handled.
- `memory_alloc_free`: `memory_free` runs its loop while `i * 8 < size - 1` and
  adds one page more, which for most sizes frees a page that follows the
  allocation.
- `memory_alloc_refus`: `memory_allocate` sorts the free list when too few pages follow the
  first one, then tests again the number of consecutive pages that it had computed before
  the sort. A request that fits after the sort is refused with `E_NOMEM`, "not enough
  memory"; made again, it is granted (`TriUtile`).
- `msg_server_stop`: `handle_request` reads one message and registers for the next
  notification after its reply. A message that arrives in between finds the
  queue non-empty afterwards and notifies nobody; nor does any later one. The
  header says the server stops when a client sends a message starting with `@`.
  A client that starts as soon as the previous one got its reply is enough.

## 5. Proofs

Checked by TLAPS, for every value of the constants that the modules' assumptions
allow. Every safety invariant, action property and refinement that the passing runs
check is proved.

| about | assumption | what it asks |
|---|---|---|
| tables, pipes and queue of `benchmark/` | `SemTableAssumption`, `CondTableAssumption`, `PointerPipeAssumption`, `FramedPipeAssumption`, `QueueServerAssumption` | a finite non-empty pool, any number of requests, positive capacities; any set of addresses; for frames, lengths less than the buffer and a pipe that holds a `PIPE_BUF` |
| `MsgServer` | `MsgAssumption` | two threads and one message per queue at least; any clients, any number of launches |
| servers | `TchatonAssumption`, `ChatAssumption`, `EchoAssumption`, `WebAssumption`, `NommageAssumption`, `TcpAssumption`, `SpoolAssumption`, `BanqueAssumption` | positive sizes; names of clients, threads and places that differ; finite sets of clients in `EchoLoops` and of processes in `Banque`, any set elsewhere |
| `MemoryAlloc` | `MemoryAllocAssumption`, and `TaillesRendues` as a hypothesis of the theorems | at least one page, of at least two bytes; every size asked for is one page or one byte more than whole pages |
| `ArbreAVL` | `ArbreAssumption` | keys are numbers, in the order of `strcmp`; `NULL` is no address and no value. Any keys, values and addresses, infinitely many too |

`TaillesRendues` is what `memory_free` needs: for any other size it gives back one page
too many, which `memory_alloc_free` shows. The sizes of `MemoryAlloc` in the run
`structures` satisfy it.

| module | theorem | |
|---|---|---|
| `DistributionProofs` | `ToutEstTraite`, `UnSeulTraiteur` | a program that implements the distribution ends only with every request handled, each by one handler |
| `SemTableProofs` | `Types`, `TypesEtComptes` | `[]TypeOK`, `[](TypeOK /\ Comptes)` |
| | `AccesALaTable` | `[]AccesSurs` |
| | `Raffinement` | `Spec => D!Spec`: the table implements the distribution |
| | `ToutEstTraite` | the program ends only with every request handled |
| `CondTableProofs` | `AccesALaTable` | `[]AccesExclusif`, the types with it |
| | `AucunReveilPerdu` | `[]PasDeReveilPerdu` |
| | `Raffinement` | `Spec => D!Spec` |
| | `ToutEstTraite` | the program ends only with every request handled |
| `PointerPipeProofs` | `Propriete` | `[]UnSeulPossesseur` |
| | `Memoire` | `[]MemoireBornee` |
| | `Raffinement` | `Spec => DSpec` |
| | `ToutEstTraite` | the program ends only with every request handled |
| `FramedPipeProofs` | `LecturesAlignees` | `[]Aligne` |
| | `Raffinement` | `Spec => DSpec` |
| | `ToutEstTraite` | the program ends, unless it exits on an error, only with every request handled |
| `QueueProofs` | `Proprete` | `[]InvocationPropre` |
| | `Heritage` | `Spec => HeriteDUnTue` |
| | `Raffinement` | `Spec => DSpec`, of the last invocation |
| | `ToutEstTraite` | if it found the medium empty, it ends only with every request handled |
| | `UnSeulAppel` | `MqSpec => []UnSeulTraitement` |
| | `Surdite` | `MqSpec => SourdPourToujours` |
| | `Reponses` | `MqSpec => []ReponseDue` |
| `CoursProofs` | `PlacesTenues` | `Tchaton`: `[]Places` |
| | `TableauEtListe` | `ChatPoll`: `[]ListeSuivie` |
| | `ToujoursSuivi`, `PlacesGardees` | `EchoLoops`: `[]EchoSuivi`, `PlacesPerdues` |
| | `NumerosDifferents` | `ServeurWeb`: `[]NumerosJustes` |
| | `ChacunSaReponse` | `Nommage`: `[]BonneReponse` |
| | `ServeurSurvit` | `ServeursTCP`: `[]Survit` |
| | `ToutEstImprime` | `Spouleurs`: `[]AnneauExact` |
| | `CompteExact` | `Banque`: `[]SoldeExact` |
| | `ListeTenue`, `JamaisDeuxFois`, `RefusRepare` | `MemoryAlloc`: `[]ListeLibreExacte`, `[]Disjoints`, `[]TriUtile` |
| | `RienNeSePerd`, `ToujoursAVL`, `Fidele` | `ArbreAVL`: `[]SansFuite`, `[]AVL`, `AvSpec => DicoSpec` |

None of the invariants is inductive. What each proof adds follows.

**Tables.** `IInv`
adds to the types: `Exclusion` (one handler in the critical section, the one that
has the mutex), `Indices` (`iDepot` and `iExtrait` are `sent` and `taken` modulo
the table's size), `Comptes` or `Compteurs` (each counter as a sum over the
places of the threads), `Boucles` (which messages the distributor can be at),
`Contenu` (a message not yet extracted is in its slot) and `Copies` (a handler
holds the message it extracted). For the semaphores the key is `Borne`: at most
`T = 2N` messages are in the table. Before any handler has stopped this follows
from `placeDispo`. Afterwards `placeDispo` counts too many free slots, but only
end messages remain, fewer than the table has slots; that is why the second post
does no harm. Two ranks less than `T` apart have different slots
(`RingDistinct`), so the slot being filled is neither the one being read nor one
that waits.

For the conditions, `PasDeReveilPerdu` needs every `signal` to find either no
sleeper or one it turns into a waking thread, which is counted against the
message it announces.

The refinements follow from `Contenu` and `Copies`: the message a handler copies
is `taken + 1`, the next in the order of sending. In `SemTable` and `CondTable`,
`DSpec` adds the fairness of the distribution; the proofs establish its safety
part, `D!Spec`, and TLC the rest.

**Addresses.** An address says nothing of who owns it, but the
rank stored in the block does: `taken + i` at place `i` of the pipe
(`DansLeTube`), at most `taken` in the hands of a handler (`AuxTraiteurs`), 0 or
`sent + 1` with the distributor (`AuDistributeur`). These ranges are disjoint,
the places of the pipe have different ranks and the handlers different blocks,
so no block has two owners; `SansFuite` gives every allocated block one. The
bound on memory is a count of the possible owners.

**Frames.** The pipe alternates lengths and bodies, each body after its own length
(`Alternes`); only the last body may be there in part, and only while the
distributor is writing it (`Entiers`). What comes first is what the handler
under the mutex is to read: a body if one is between its two reads (`Tete`). What
comes last is where the distributor is in its two writes (`Queue`). A write is
split only if it is longer than `PIPE_BUF`, hence a short read, hence the death
of the server.

**Queue.** Nothing in the queue, in a handler or in `treated`
carries the number of an invocation to come (`Passe`), so one that starts on an
empty queue finds its own messages only, in the order of sending (`Contenu`).
Its handlers stop on end messages, each on another one (`Mains`); once all have
stopped, all `N` end messages were received, hence everything before them, and
the queue is empty (`TousArretes`). That is why the queue is removed with nothing
unread, and why only a kill leaves messages to the next invocation.

**Echo servers on queues.** `Descripteurs` says what each process may hold: a server that runs
has its queue of requests, a name leads to the last server's queue or nowhere, a
queue not yet created is empty. `Exclusion`: a thread runs `handle_request` only
while `main` sleeps and no registration is left, so that the registration it makes at
its end is never refused. For `ReponseDue`, `Prive`: as long as no other client
reads, the answer due to a client (`attendu`) is at the head of its queue of replies, or
that queue is empty and the answer is in the hands of a thread, or to be given to the head
of the queue of requests. Interruptions and requests of others keep that, since they add
behind it.

**TCP servers.** A server dies of a send to a connection known to be gone,
and two answers in a row would be needed. `Alternance` says that a client and its
server take turns: a request or an answer is in transit, never both, and the
server's counter is the number of answers the client has read, but for the one in
transit. A killed client therefore leaves one request at most; its answer is the
last that is sent on that connection.

**Account.** `BkExclusion` puts one process at most in the critical
section, a killed one included, which is there for ever. `Livres` says what each
place of that process implies of the file: it is empty only while the process is
about to write it, or died there, and a process that has read it holds the sum of
what was paid in. A crash thus stops the others, but no wrong amount is read.

**Name servers.** `UnSeulEndroit`: the request of a client that waits is in one
place, the buffer of `main`, a pipe or a thread, and its answer nowhere yet. `BonTampon`: a
thread works for the client whose request its buffer still holds. In Q1 this
lasts until a request is received while a thread works; `recouvert`
remembers that, and nothing is claimed of Q1 afterwards.

**Web server.** As long as one thread at a time is in the counter (`UnALaFois`),
the value it has loaded is the counter's, and each number given is below the next.

**Spoolers.** `ToutesLesPlaces` adds up the free places, the names announced, and
the places in the hands of each process, dead ones included; it holds with or
without a race. `BonAnneau`, until a race: the two indices are the lengths of the
logs of what was begun and what was printed, modulo the ring (`RingSum`), and the
slots in between hold the names that wait.

**tchaton.** `SuiviRedacteurs`, until two searches for a writer's slot overlap: the
slots designate different threads, each of which owns it, or left without `quit`.
`SuiviLecteurs` is the same for readers. `EchecExplique`: a thread that failed had met the end of
a connection. None of this depends on how lines are cut, nor on who waits in `send`.

**Chat of TP10.** `ChPlaces`: a connection is on its way to `accept`, accepted, or in
the structures of the server, once. `ChPasse` relates what the running pass has still
to examine to the array, through the deletions that move entries. `ChAccord`
names whoever is in one of array and list and not in the other, and `MortExpliquee` each
way the loop may die. A loop that is blocked in `fwrite` changes neither structure, and
whoever it waits for had sent its pid.

**Echo loops.** `Structures`: no place is given twice, whether it is a descriptor, an
entry of `ufds` or of `clientList`. `Logement`: every connection waits for
`accept`, has a place, was let down, or is gone. `Trous`: until two
neighbours leave in one pass, each hole of `ufds` is squeezed before the loop waits
again. That a descriptor below the limit is free when a client is accepted is a pigeonhole
argument on the finite set of clients.

**Allocator.** The list is a walk of `available_blocks` steps from `first_block`, all on
different pages, that ends at `Fin` (`ListeLibre`), and its pages are those not in use.
`maillon`, the walk, is a recursive function: `MarcheExiste` derives its equation, and `Reconnue`
says that a sequence of pages each of which holds the next one is that walk. Both take
the least step at which something would go wrong, and so does the proof that
`memory_reorder` keeps the list: after `i` steps along the sorted pages, `i`
pages of the list are below (`PasTrier`). Up to the
first page in use they are then neighbours, which `nb_consecutive_blocks` counts (`BasPret`). An allocation takes the first steps of the walk, which
`nb_consecutive_blocks` has found to be neighbours (`Consecutives`); a free puts the pages of one
allocation, and no other (`RenduEnEntier`), before it.

**AVL tree.** `SansFuite` and `AVL` speak of whole subtrees, which two functions
recursive over the heap give, `Dessous` (the nodes below a node) and `Profondeur`. No
induction over trees is available, so the invariant `AvIInv` says that `Dessous` solves its
equation, and that this makes the heap a search tree (`EstArbre`: what is below a node is
below those above it, a node has one parent, keys on the left are smaller);
`DessousUnique` and `ProfondeurUnique` show that whatever solves the equation is the
function, by taking a faulty node with fewest nodes below it (`PlusBas`). Each operation on the heap gives the new solution from the old one:
`RotationADroite` and its mirror, `Ajout` of a leaf, `Retrait` of a leaf, `Rattachement` of a
subtree to its parent. The heap is a search tree
between any two of them.

The rest of `AvIInv` is about the calls. `Guide`: the pile is the path from the root to the
call that runs, each node the child of the one before it on the side that its key, or
`release`, picks. `Recherche`: the key that is searched is in the subtree of the call or
nowhere, which gives `get` its answer, and belongs there (`Situe`), which lets `insert` add a
leaf. `Hauteurs`: while the search goes down every height is exact and every node balanced
(`Exact`); on the way back the node to balance is the only exception, and was exact before one
of its subtrees grew by one (`Presque`). One fact there is not obvious: a subtree that has just
grown, unless it is a leaf, leans to one side. The code goes for the double rotation when the
child is *balanced* too, where it would leave the tree unbalanced; that case therefore never
arises. The four lemmas `SimpleDroite` to `DoubleDroite` compute the heights after each rotation,
`Equilibrage` puts them together.

For `Fidele`, the values of the nodes change at one step of `insert` only, the one that
finds or makes the node, and no rotation changes which key has which value.

`ProofLemmas` has the arithmetic of rings, the counting of threads at a place
(`CountMove`), and least and greatest elements of sets of numbers (`PlusPetit`,
`PlusGrand`), which are what the scans of tables, and `Min` and `Max`, rest on. They are derived from the
well-foundedness of `<`; the library's principles of induction take an operator as
parameter, which the provers used here cannot instantiate.

**Only model-checked**: liveness (`Termination`, `TerminePropre`, the fairness in `DSpec`,
`Servie`, `AttenteBornee`, `ChacunServi`), since the prover handles no fairness or `ENABLED`.

## 6. Plan

1. The core, its abstract specification and proofs: done.
2. The servers, and the programs that share a ring, a counter or a file: done.
   What is left of the second table of section 1 has no behaviour of its own to check.
3. Proofs of the safety properties: done, `ArbreAVL` included, and what follows from the
   refinements of `Distribution` for each server of `benchmark/`.
4. What could follow: the spoolers `imprime0.c` to `imprime2.c` as earlier forms of
   `imprime3.c`, each with the fault that the next one mends.
