# A verification development for tiny_httpd

tiny_httpd is a small web server in C (`src/httpd.c`): one thread per
connection, static pages, and CGI programs in processes of their own, fed and
read through pipes. `src/htdocs/cgi_bin/` holds an application on top of it, the
administration of a table of goods in a MySQL database, in C++ programs that
are run once per request, and a calculator.

This directory holds TLA+ modules that model the server and the application,
configurations that check them with TLC on small instances, and proofs, checked
by TLAPS, of what holds for every instance. The repository has no tests and
hardly any documentation; the reference for every definition is the code, and
the comments in the code for what it is meant to do. `PROJECT.json` lists, for
machines, what this file explains: components, runs, mutants, the map from
definitions to source lines, findings, hazards and theorems.

## 1. Inventory

| component | state it keeps | operations | module |
|---|---|---|---|
| start-up: `start()`, `start.sh` | the listening socket | socket, bind, listen; exits on failure | `Restart` |
| accept loop: `main()` | the descriptor table of the process (shared by all threads) | accept, `pthread_create`, `pthread_detach` | `Httpd` |
| request line: first half of `accept_request()` | method, url, query, path, `st` | split the line, `stat`, choose a handler | `Resource`, `HttpRequest` |
| connection handler: `accept_request()`, `echo_error_to_client()` | local variables of its thread: `sock_client` | serve, report errors, close | `Httpd` |
| line reader: `get_line()`, `clear_header()`, the header loop of `exe_cgi()` | a buffer of 1024 bytes, the position in the byte stream of the connection | give the next line with a LF for its end; skip the headers or find `Content-Length` | `HeadReader` |
| static pages: `echo_html()` | `in_fd` | open, status line, `sendfile`, close | `Httpd`, `Resource` |
| CGI gateway: `exe_cgi()` | two pipes, a child, `content_length` | fork, feed the body to the child, relay its output, close, `waitpid` | `Httpd`, `Gateway` |
| database access: class `sql_connecter` | the connection `_conn`, the result `_res` | construct, connect, `exe_update`, two selects, destruct | `SqlConnecter` |
| goods programs: `*_god_*_cgi.cpp` | one process per request, with one or two `sql_connecter`; the tables `goods` and `goods_type` are shared | list, search, add, add a type, delete, the two forms and the change | `Goods` |
| calculator: `math_cgi.c` | `post_data` | sum of two numbers of a form | `Gateway` |
| debug program: `debug_cgi.c` | none | dies before it prints its environment; no page links to it | `Gateway` |
| test client: `demo_client.c` | a socket | connects, ends | `Httpd` |

How they interact:

- `main` and the handler threads call each other only once (`pthread_create`
  with the number of the connection), but all of them share the **descriptor
  table**. `accept`, `open` and `pipe` give out the lowest free number; a number
  that was closed is given out again at once.
- A thread and its CGI child share the two **pipes**; so does, unintentionally,
  every child that another thread forks while the pipes are open, since a fork
  copies the whole table and nothing is marked close-on-exec. Each child also
  has the **listening socket**, which outlives the server with it.
- Client and thread share a **byte stream** in each direction. Nothing has a
  timeout: every read blocks until there is a byte or the other side has closed.
- Threads and whoever edits the pages share the **files**, which are looked up
  twice for one request.
- The CGI programs share the **database**, one statement at a time and without
  transactions; and a page on a screen is a copy of rows that others may change
  before it is sent back.
- SIGPIPE keeps its default action, so one thread's write to something nobody
  reads ends the process and all other threads with it; its children go on.

The behaviours that are hard to test, and the properties each component needs:

- *Server* (accept loop, handlers, pages, gateway): the descriptor numbers in a
  thread's variables denote what it opened, whatever other threads do, and no
  path leaks one (`Accounting`); only the owner closes (`ClosedByOwner`); answers
  reach the client that asked (`OwnAnswers`); every failure is reported
  (`Answered`); no page or output is sent with input unread that would make `close()` reset
  the connection (`SafeReply`); every request is answered and its connection
  ends in spite of inherited copies of descriptors (`Served`); no child stays a
  zombie (`Reaped`); no request brings the server down (`Survives`); and, as one
  statement, the server implements the abstract service (`Serves`).
- *Lives of the server*: it can be started again (`Restarts`), connections made
  while there was no server are settled (`Settled`), and no program of an
  earlier life meets a later server (`OneLife`).
- *Request line and pages*: the request is understood as it was meant
  (`Routed`, `QueryKept`); every byte that goes out of a page was there, and a page
  nobody edits goes out whole (`PageWhole`); one called missing was missing
  (`MissingOnly`), whoever edits it between the two look-ups or while it is sent.
- *Line reader*: the three conventions for the end of a line lead to the same
  lines (`LineByLine`), so that the body starts where it starts (`BodyWhole`)
  and the announced length is found (`LengthKnown`); the program gets as many
  bytes as it is told to read (`PipeFilled`), and of a client that leaves what came
  of its body before anything else (`Padded`).
- *Gateway and its programs*: with pipes that hold only so much, every
  request comes to its end but in the ways the code has (`Through`), all output
  arrives (`Delivered`), only a program that does not read, or that its input
  overruns, kills the server (`KilledOnly`), and the calculator is right (`SumRight`).
- *Goods*: what is stored is what was entered (`Entered`); alerts should tell the truth
  (`Honest`, which the code breaks), and are wrong for three reasons only, the table unchanged
  (`AlertsExplained`); a form shows the row it changes (`FormFresh`); deleted rows stay
  deleted (`NeverBack`); a program dies only when somebody else interfered
  (`CrashExcused`); searches are exact (`SearchExact`); results of the client
  library are freed once (`Freed`).

`hazards` in `PROJECT.json` lists each hazard at the line where it bites.

## 2. The modules and the code

    HttpRequest   requests, routes, proper replies
      Resource    from a request line to one       MCResource           ResourceProofs
      Httpd       threads, children, descriptors   MCHttpd, MCPlenty    HttpdProofs, HttpdAnswers,
        refines   HttpService, what a client is promised                HttpdServes
        Restart   deaths and starts of the server  MCRestart            RestartProofs
    HeadReader    the bytes of one connection      MCHeadReader
      Gateway     with pipes and a program         MCGateway            GatewayProofs
                                                                        (both modules)
    SqlConnecter  one sql_connecter object
      Goods       browsers, programs, database     MCGoods, MCWhole     GoodsProofs, GoodsAnswers

An indented module extends the one it stands under. `MCPlenty` and `MCWhole` are `MCHttpd`
and `MCGoods` with an `ASSUME` more: that the instance of the run satisfies the hypothesis
(`Plenty`; `Willing` and `Filled`) under which theorems of section 4 are stated, so that TLC
confirms on every run that the hypothesis can be met. `MCGateway` does this for `Plain` and `Summable`.

### HttpRequest and Resource

`HttpRequest` has requests as the threads tell them apart: a record of method,
whether there is a query, what `stat()` finds behind the path, and whether the length
is -1, zero or positive; `Route` is the choice of `accept_request()`, `Proper` the
reply that is owed, `Excused` the replies that report a failed call.

`Resource` is where such a request comes from: `ReadLine` cuts the request line into
method, URL and query (`MethodOf`, `UrlOf`, `QueryOf`, the loops at lines 288-325),
`Stat` finds a file, a directory's `index.html` or nothing (329-363), `Open` and
`SendFile` are `echo_html()`; `sendfile()` sends one byte after the other, up to `st_size` of
them (`Copies`). `Edit` is the rest of the world: somebody writes a page in place
(`WriteInto`, which an open descriptor sees), replaces it by another file or deletes it
(`Replace`, after which the descriptor keeps the old file), between any two of these calls
and bytes. Each line
of the run comes with what its author means by it, the reference that `Routed` and
`QueryKept` compare with; `Means` says, by the places where words begin and end and without
the loops, that a line says what is meant (`LinesMean`). Names are tokens; a page is its bytes. `versions` and
`written` are history variables: the texts the page meant has had since `stat()` looked, and whether
somebody has written into the file while it was open. The code sends a mixture of two texts then, and
one text cut at the length of another when the page was replaced between `stat()` and `open()`.
`PageWhole` says that this is all that can happen: each byte is one some text had at its place, a file
that was not written into gives the beginning of *one* text, and a page that had one text since
`stat()` goes out whole.

### Httpd

The concurrent part of `httpd.c`. The descriptor table is explicit: `fd` maps
each number to the object it denotes, `loc` holds the numbers a thread has in
its variables (`sock_client`, `in_fd`, `cgi_input`, `cgi_output`), and `At(c, r)`
is what a number denotes *now*. Every action is one system call of the code, or
one group of them that other threads cannot tell apart from one; `pc` names the
next call.

| actions | code |
|---|---|
| `Accept`, `AcceptFails` | the loop of `main()`; a failing `pthread_create` leaves an `"orphan"` connection |
| `ReadRequest` | `accept_request()` up to the choice of handler; `Leaves` is what it does not read of the head |
| `EchoError`, `EchoClose` | `echo_error_to_client()`: the send, then the close; `ErrorExits` lists the six places that call it and where each goes on |
| `CloseConnection` | the `close()` at the end of `accept_request()`; at `"close2"` it is the second one for this connection |
| `OpenFile`, `HtmlHead`, `SendFile`, `CloseFile` | `echo_html()` with its two error paths |
| `CgiHead`, `PipeIn`, `PipeOut`, `DropIn`, `Fork`, `ParentCloses`, `Feed`, `Relay`, `RelayEnds`, `ClosePipes`, `WaitChild` | `exe_cgi()` in the parent |
| `Copied` (part of `Fork`), `ChildRuns` | the child: what the fork leaves open in it, `execl`, the program, its exit |
| `BrokenPipe` | SIGPIPE and its default action |
| `Connect`, `SendHead`, `SendBody`, `Leave` | the clients; `demo_client.c` is one that leaves before it has sent anything |

Abstractions. The head of a request is one unit and the body another (`unread`);
what the server sends is a sequence of pieces, each with the thread that wrote it
(`got`). A call that blocks is an action that is not enabled. Reads and writes
through a number that has come to denote something else have the effect they have
in the code: a page can go into a pipe, the relay loop can read a connection. Not
seen at this level: a thread that is already blocked inside a call keeps the object it
blocked on, while in the model it would go on with the new one; offsets and sizes of
files (`Resource`); the order of the reads of a head (`HeadReader`); how much a pipe
holds (`Gateway`).

### HttpService

The abstract specification: a connection is opened, one request is made, the
reply to it comes piece by piece, the connection closes when the reply is
complete. `Httpd` implements it (`Serves`) with `Proper` for the reply and, for
the end of a connection, the moment the *last* process that holds it has closed
it. Several connections may close in one step, because the exit of a child
drops everything it inherited.

### Restart

`Httpd` with the server's end and its next start. `Die` is the end of the process at
any call: its table and threads are gone, its children, with all they inherited, go on,
the listening socket included (`Listens`). While one runs (`Orphaned`), the
kernel still completes connections that nobody accepts (`ConnectToNobody`), and
`bind()` in `start()` fails; when none does, the kernel resets what was not accepted
(`ResetQueue`) and `Start` succeeds. `SO_REUSEADDR`, which `start()` sets, helps
against old connections, not against a socket that listens.

### HeadReader

The bytes of one connection. `RecvByte`, `RecvEnd`, `PeekTakes` and `PeekLeaves`
are the two `recv()` calls of `get_line()` with their outcomes, `Return` is the
return to the loop that called it (request line, header loop of `exe_cgi()`, or
`clear_header()`), `Feed` and `FeedEnds` the loop that copies the body into the
pipe. `SendByte` and `Leave` are the client, at any point. Bytes are tokens; the
14 bytes of `Content-Length` are one token, so that offset 16 of the code is
position 4 of a line. A request carries, besides its lines and its head as bytes, where in
the head each line begins (`from`), and `AsSent` says that the head is these lines with their
ends; the model reads the bytes, properties and proofs speak of the lines. `Atoi` reads one blank, a sign and up to two digits.

### Gateway

`HeadReader` with what is at the other end: two pipes of `PipeSize` bytes and the
program. `Write` is the parent's `write()`, which blocks when the pipe is full
(`HasRoom`) and kills the server when the program has ended (`WriteBreaks`);
`Relay` and `Wait` are the loop over the output and `waitpid()`; a `send()` to a
client that has left may kill the server as well (`SendBreaks`). A program prints so
much before it reads, reads the body or not, and prints so much afterwards: each of
the repository's programs is one such record, `math_cgi` with the arithmetic of
`math_add` (`MathAdd`, on ints of a width given by `IntMax`), `debug_cgi` as one that
crashes, since it passes on the null pointer it gets for a misspelt variable.
What a body does that is as long as `post_data` or longer is left open: its closing NUL lands
behind the array (`Overrun`), which may end the program when it has read everything, and of a longer
body every further byte does (`Smashed`), which may end it while it is still reading, so that the
parent's next `write()` kills the server. The count of bytes in a pipe is the difference of two counters.
Each action takes a step of `HeadReader` or leaves its variables alone, so the invariants
of the line reader are checked here, where the feeding loop can block and the server can be killed.

### SqlConnecter and Goods

`SqlConnecter` gives the methods of the class as operators on the state of one
object; its arguments say what the library answered. `Goods` has the browsers
(`page`: what is on the screen), the programs (`prog`: which one runs, its input,
the page it is about to print), their objects (`objs`) and the two tables.
A program interleaves with others between its statements:

| actions | code |
|---|---|
| `Follow`, `Pick`, `SubmitAdd`, `SubmitType`, `SubmitChange`, `SubmitFind` | the links and forms that the programs and `htdocs/*.html` print |
| `Connect` | constructor and `begin_connect` (whose result no program looks at); twice for a change |
| `AddGoods`, `AddType`, `DelGoods`, `ChangeGoods` | `add_god_cgi`, `add_god_type_cgi`, `del_god_cgi`, `change_god()` of `change_god_cgi`, each one `exe_update` |
| `SelectTypes`, `SelectRow`, `SelectGoods` | `exe_select_type`, `exe_select_goods` of the forms, the list and the search (`Matches`, `Refused`: `get_select_sql`) |
| `StoreFails`, `Crash` | a result that could not be stored, and the null pointer that follows; the first of no rows |
| `Release`, `Show` | destructors in reverse order, then the output and the exit |

A form arrives as the words `sscanf` finds, which takes every second one: a field is its key and
its value, an empty field its key alone (`Pair`), which moves those after it, and a radio button
that was not chosen is not sent at all (`Radio`) and leaves its array unwritten (`Garbage`). The database is external: statements are atomic, ids count up and
are not used again; what stands without quotes in a statement is a number, a column,
or makes the statement fail. A browser waits for its answer before it asks again.
Undefined behaviour that ends the program in every build we can think of (a null
pointer, the first element of an empty vector) has the one outcome `Crash`.
`touched[b]` is a history variable: the goods others changed since the page on
b's screen was read.

Three things in every module are there for the checks only and say so in their
comments: definitions marked "a mutant" (a plausible mistake in the code, that the
property named in `PROJECT.json` must notice), history variables, and bounds.

## 3. What the runs check

| run | module, cfg | result | distinct states |
|---|---|---|---|
| `plenty` | `MCPlenty`, `Plenty.cfg` | pass | 59 thousand |
| `scarce` | `MCHttpd`, `ScarceHttpd.cfg` | pass | 174 thousand |
| `restart` | `MCRestart`, `Restart.cfg` | pass | 125 thousand |
| `resource` | `MCResource`, `Resource.cfg` | pass | 190 thousand |
| `gateway` | `MCGateway`, `Gateway.cfg` | pass | 33 thousand |
| `goods` | `MCWhole`, `Goods.cfg` | pass | 1.6 million |
| `two_goods` | `MCGoods`, `TwoGoods.cfg` | pass | 2.4 million |
| `cross_talk` | `MCHttpd`, `CrossTalk.cfg` | **violation** of `OwnPages` | |
| `stall` | `MCHttpd`, `Stall.cfg` | **violation** of `Reaped` | |
| `orphans` | `MCRestart`, `Orphans.cfg` | **violation** of `InputEnds` | |
| `edge_line` | `MCHeadReader`, `EdgeLine.cfg` | **violation** of `LengthKnown` | |
| `misreport` | `MCGoods`, `Misreport.cfg` | **violation** of `Honest` | |

- **plenty**: two clients at once that send what they began, every kind of request
  whose path closes once, and more than enough descriptors, threads and children. Each
  client gets the proper answer to its own request (`Answered`), with nothing unread
  that would take it away (`SafeReply`), the server stays up (`Survives`), every
  behaviour is one of `HttpService` (`Serves`), every request is answered until its
  connection has ended everywhere (`Served`), and every child is waited for (`Reaped`),
  although each child may hold copies of the other's pipes. With ten numbers for two
  connections of at most five descriptors each, nothing can fail, so this is the
  promise in good weather, under all interleavings of two threads, two children and
  two clients.
- **scarce**: five numbers, one thread, one child, clients that may leave at any moment,
  and the requests that take the error paths. A gateway alone needs five numbers, so
  `open`, the first `pipe` and the second `pipe` all fail in some behaviours, as do
  `fork`, `pthread_create` and `accept`. The accounts hold and every failure is reported.
- **restart**: two clients, a server that may die at any call and is started again up to
  twice. It comes up again (`Restarts`) and every queued connection is accepted or
  reset (`Settled`), unless two of its programs wait for each other (`Cycle`), which is
  what `orphans` is about; no program that runs beside a server is another life's
  (`OneLife`).
- **resource**: 21 request lines (one to three blanks, a trailing slash, two
  slashes, a second `?`, an empty query, no URL, a method longer than its array, a
  method that is neither) and pages of four texts, no two of which agree in a byte, edited
  up to twice between any two calls and any two bytes of `sendfile()`: torn and cut pages
  happen in the run, and are what `PageWhole` allows.
- **gateway**: requests with each of the three line ends, with lengths -1, absent,
  negative, one and two digits, lines longer than the buffer, a body that contains a LF,
  forms of the calculator that fit `post_data`, just do not, or overrun it by far, a
  length without the blank before it, and a client that leaves
  after any byte; for programs that read and print in the ways the repository's do. All
  invariants of the line reader, the gateway's own, and that every
  request comes to its end (`Through`).
- **goods**: two browsers, one row, two types of which one may be added on the
  way, filled-in forms, eight searches, statements that succeed. All interleavings of two
  programs, and of programs with pages that have grown old. Nothing fails here, so
  `AlertsExplained` leaves one reason for a wrong alert: another browser has deleted the row.
- **two_goods**: two rows, filled-in forms and forms with a field left blank (so that fields
  shift and `Garbage` arises), connections that are refused and every statement of
  theirs that fails (two connections for two programs, of which a change wants two), results that
  cannot be stored. No alert is wrong here but for a connection of the program's own, a deleted row
  or a blank field, and no row changes that was not asked for.
- **misreport**: two browsers, one connection, statements that may fail: everything that makes
  an alert lie can happen; TLC shows the shortest.

Deadlock is checked except in three configurations, where the system really may stop:
in `gateway` when program and parent wait for each other or the server was killed, in
`restart` and `orphans` when nobody starts the server again and clients say nothing. In
the others a stop is an error; `Quiet` (in `Httpd`) is a step only when every thread is
through or the process is gone and no program runs.

The violations are disagreements of code and comments met while modelling:

1. `cross_talk`, `httpd.c:366`. After `echo_html` or `exe_cgi` reported an error,
   `echo_error_to_client` has closed the connection and `accept_request` closes the same
   number again. When another thread was given the number in between, that thread's
   connection is gone and its page goes to whoever is accepted next.
2. `stall`, `httpd.c:242`. A child waiting for its own client's body holds a
   copy of another child's output pipe; the relay loop of the other thread never
   sees the end, never reaches `waitpid`, and the finished child stays a zombie.
3. `orphans`, `httpd.c:201`. A child closes its own copy of the write end of its input,
   because its data come from the parent alone; but another child, forked meanwhile, has a
   copy too. Two such children keep each other's input open: when the server has died both
   wait for ever, and keep the port.
4. `edge_line`, `httpd.c:23`. A header that fills the buffer exactly leaves its LF for the
   next call, which looks like the blank line. The `Content-Length` behind it is not read, the
   length stays 0, the feeding loop runs not once: the program gets no body.
5. `misreport`, `sql_connect.cpp:76`. `exe_update` returns the error of `mysql_query`,
   which is positive, as the number of rows; the programs announce a success. `AlertsExplained`
   says what is left of `Honest`.

`NoSecondClose` is the proviso of the server's invariants for this reason: they hold
until the first thread has closed a second time, and finding 1 shows that they do not
hold after it. The antecedent is not vacuous: `scarce` has behaviours in which nobody
closes twice, `plenty` has no others, and the theorems below say that it is the
only proviso.

Where a property has an exception, the exception is what the code does, and is
named in it: a client that ends its lines with CR alone and sends no body is waited for
(`Owes`); a program that prints more than a pipe holds before it reads a body that does
not fit either is never through (`Embrace`; none of the repository's programs does); a page
edited on the way is cut or mixed, and a directory's page is cut to the size of the directory
(`PageWhole`); a `Content-Length` without the blank loses its first digit (`Spaced`, in `LengthKnown`
and `BodyWhole`); a body longer than `post_data` may end its program while it reads, and so the
server (`KilledOnly`); the form of `change_god_cgi` loses a result (`Freed`); and *every* error reply is sent with
the rest of the request unread, not only the one to a method other than GET and POST: a POST
to a file that is not there, a length of -1, a call that failed (`SafeReply` is about pages and
outputs only).

### Bounds, and why they are enough

| constant | value | stands for | why it is enough |
|---|---|---|---|
| `Clients` | 2, or 3 | any number of connections | interference needs one thread that acts and one that is hit; a third is needed for "goes to a stranger" (`cross_talk`) |
| `FDs` | 5 or 10 numbers | 1024 | fewer than two gateways need, so that every call fails in some behaviour; or as many as they need, so that none does |
| `MaxThreads`, `MaxProcs` | 0 to 3 | limits of the system | each refused and each granted in some run |
| `Backlog` | 1 | `_BACK_LOG_` | the queue is only an order of arrival; one entry leaves all orders |
| `MaxStarts` | 2, or 0 | any number of restarts | programs of one life and of the life before it; `orphans` needs none |
| `MaxLen` | 7 | 1024 | the only comparisons with it are "one less than"; 7 holds a `Content-Length` line of tokens and is crossed by lines of 8 |
| digits | at most two | any | offset and sign matter, magnitude does not |
| `PipeSize` | 2 | 65536 | less than bodies and outputs of the run, so that both pipes fill |
| `PostSize` | 12 | size of `post_data` | forms of 10, 11, 12 and 20 tokens: shorter than it, shorter by one, as long, and longer by more than the pipe holds, so that a program that ends early leaves the parent writing |
| `IntMax` | 15 | 2^31 - 1 | 12 + 3 just fits, 12 + 12 does not |
| `LineSize`, `MethodSize` | 12, 3 | `_COMM_SIZE_`, a tenth of it | a method of three tokens is cut |
| `Texts`, `DirSize`, `MaxEdits` | 0, 1, 2 and 4 bytes; 3; 2 | any | shorter and longer than a directory, and different in every byte; an edit between each pair of calls, or two while one file is sent |
| `GoodsIds`, `TypeIds`, `FirstTypes` | 1 or 2 each | ids of the tables | one row for conflicts over the same row, two for a row mistaken for another; a type that appears while a form is open |
| `Entries` | 1 or 2 | what users type | two to tell an update from a coincidence |
| `Searches`, `Prices`, `Within` | 8; 3; 1 pair | the search form | each field alone, a range, a bound between two prices and at one, a field empty |
| `MaxConnections` | 4, 2 or 1 | limit of the database | no connection refused, or one, or two |

`SubmitAdd` and `SubmitType` have the guard that no more rows are asked for than
there are ids; deleting does not give ids back. Symmetry over clients or browsers
is used in runs without liveness properties only.

### Fairness

- `Httpd!Fairness`: weak fairness of `Accept`, of each thread and of each child
  (the kernel schedules a process that can run), and of the sending steps of the clients in
  `Prompt` only. Weak is enough, because a thread that can take a step keeps being
  able to until it does or its call fails. Clients outside `Prompt` may fall
  silent for ever, as the code has no timeout; that is what `stall` is about.
- `GatewaySpec`: weak fairness of the thread, of the program, and of the client's next byte
  while it has not left; not of `Leave` and not of the signal after a `send()`.
- `RestartSpec`: weak fairness of `Start` (whoever runs `start.sh` tries until it works), of
  `Accept`, of `ResetQueue` (the kernel) and of the programs; nothing is asked of
  threads, which `Restarts` and `Settled` do not need, nor of clients.
- `Goods` and `Resource` have no liveness property.

## 4. What is proved

| module | obligations | about |
|---|---|---|
| `HttpdProofs` | 856 | descriptors of the server |
| `HttpdAnswers` | 1400 | what its clients are sent |
| `HttpdServes` | 778 | the server where nothing fails, and `HttpService` |
| `RestartProofs` | 266 | its lives |
| `ResourceProofs` | 1305 | request lines and pages |
| `GatewayProofs` | 2395 | line reader, gateway, calculator |
| `GoodsProofs` | 504 | forms, deleted rows, results of the library |
| `GoodsAnswers` | 2366 | what is stored, alerts, searches |

All of it holds for every set of clients, browsers, descriptor numbers, ids, entries and searches,
every limit, every size of buffers and pipes, every width of ints, every set of request lines,
requests and programs that meets the modules' assumptions: descriptor numbers are positive naturals
(`FDsAssumption`; 0 is `NoFd`), limits and sizes are naturals, `MaxLen` leaves room for a byte, the array
of the method for two tokens, requests and programs have the right shape, a request's head is its lines
as they are sent (`SentAssumption`), a request line means what it says (`LinesMean`), ids differ.
Some theorems have a hypothesis more, which is named in them; an `ASSUME` of the run shows that
it is met there:

| hypothesis | says | run |
|---|---|---|
| `Plenty` | five descriptors and one child for each client, nobody leaves, and no request that ends in an error of a gateway or a page, or runs a program that does not read its body | `plenty` |
| `Plain` | no blank line inside the head, no line that fills the buffer to the byte (which is the finding of `edge_line`), `Content-Length` at the beginning of a line that fits the buffer, if anywhere, and, where a blank precedes it, the length of the body; and if lines end with CR alone, a body that does not begin with LF | `gateway` |
| `Summable` | the form of the calculator reads as one, with a blank before its length, and its program reads it | `gateway` |
| `Willing` | no statement fails, and there are two connections for each browser | `goods` |
| `Filled` | no form has a blank field | `goods` |

| theorem | says |
|---|---|
| `Typing` | `Spec => []TypeOK` for `Httpd` |
| `Freshness` | a connection is queued once and given to one thread |
| `DescriptorAccounts` | `Spec => []Accounting`: until a second close, variables and table agree, nothing leaks |
| `NoCrossTalk` | `Spec => []OwnAnswers` |
| `Owners` | `Spec => ClosedByOwner`, an action property |
| `Courses` | `Spec => []OnCourse`, the invariant of the next two |
| `EveryoneAnswered` | `Spec => []Answered`, whichever calls fail |
| `RepliesSafe` | `Spec => []SafeReply` |
| `StaysUp` | `Plenty => (Spec => []Survives)`; with `Calmness`, that no call fails |
| `ServesHttp` | `Plenty => (Spec => Serves)`: `Httpd` refines `HttpService` |
| `OneLifeAtATime` | `RestartSpec => []OneLife` |
| `TypesHold` | `Spec => []TypeOK` for `Resource`: method, URL and query of any line fit their arrays |
| `RoutedRight`, `QueryIsKept` | `Spec => []Routed`, `Spec => []QueryKept` |
| `PageIsWhole`, `MissingIsMissing` | `Spec => []PageWhole`, `Spec => []MissingOnly`: of every text, byte by byte, however often it is edited |
| `HeadTyping` | `Spec => []TypeOK` for `HeadReader`; in particular `get_line` stays in its buffer |
| `PipeIsFilled` | `Spec => []PipeFilled`; `PipeIsFilledToo` the same for `GatewaySpec` |
| `LinesArrive`, `BodyIsWhole`, `LengthIsKnown` | `Plain => (Spec => []LineByLine)`, `BodyWhole`, `LengthKnown`; `ReadsPlainToo` the three for `GatewaySpec` |
| `GatewayTyping` | `GatewaySpec => []GatewayTypeOK` |
| `AllDelivered` | `GatewaySpec => []Delivered` |
| `KilledBy` | `GatewaySpec => []KilledOnly`, with programs that end anywhere behind `post_data` |
| `SumsAreRight` | `Plain /\ Summable => (GatewaySpec => []SumRight)` |
| `GoodsTyping` | `Spec => []TypeOK` for `Goods` |
| `FormsAreFresh` | `Spec => []FormFresh` for `Goods` |
| `ResultsFreed` | `Spec => []Freed` for `Goods` |
| `DeletedForGood` | `Spec => NeverBack`, an action property |
| `RowsAsEntered` | `Filled => (Spec => []Entered)` |
| `CrashesExcused`, `SearchesExact` | `Willing => (Spec => CrashExcused)`, `Willing => (Spec => SearchExact)`, action properties |
| `AlertsAreExplained` | `Spec => AlertsExplained`, an action property, whatever fails and whatever is left blank |

*The server: descriptors.* `Accounting` alone is not inductive: `Accept` gives a
thread a number, and the account of that thread must not have been open already.
The strengthening is `TypeOK /\ Fresh /\ Accounting`, where `Fresh` says that a client
in the queue has no thread yet and is there once. The table changes in three ways only,
so the step from one state to the next rests on a lemma for each: a thread moves without
touching the table (`MoveKeeps`), closes numbers it holds (`CloseKeeps`), or
takes the lowest free numbers (`TakeKeeps`, `PipeKeeps`); each says that `HoldsOwn`
and `NoStray` survive when `HeldAt` and the label of the thread change together.
`ThreadKeeps` has one step per action. `SecondCloseStays` says that once a thread
has closed twice the proviso is false for good, so an invariant under that proviso
can be used backwards. `NoCrossTalk` and `Owners` follow from the accounts:
a thread that sends holds its connection, so the number denotes its own client.

*The server: answers.* `Answered` speaks of clients whose thread is through, `SafeReply` of the moment of
the close; inductive is what a client has been sent at *each* label of its thread. `Course` says, for one client:
its thread works on the request the client sent (`Asked`), is at a label that request leads to
(`OnWay`), and so far the client was sent exactly what belongs to that label (`Told`, `SentAt`), what it has
sent and nobody has read likewise (`Fetched`), and the child and its output (`Relayed`). The
accounts make this a statement about one thread at a time: with the lemmas `SendFileOwn` to `HeadOwn` whatever is
sent through a number goes to the thread's own client, so a step leaves all other
courses as they were (`SameCourse`), and `ThreadCourse` has one step per action.

*The server as a service.* Under `Plenty` no call fails. The reason is a count: a thread holds at most
five objects at any label (`FiveSlots`, each object having one of five slots, which no two
objects of a client share at once), and where it opens a file or a pipe at most three; so when all other threads hold
all they can there are still two numbers free (`Spare`). `Calm` then says that nobody is at a label that
follows a failed call. The refinement maps each step: a piece sent is a piece of the reply, the exit of a
child or a close that lets go of the last copy of a connection ends it, and everything
else is invisible; that a connection ends only with its reply complete is `EndedAnswered`,
from the courses.

*Its lives.* `OneLife` says that a running program has a thread; inductive is only that
its thread is at one of the labels between `fork` and `waitpid` (`Minding`), that queued
clients have neither thread nor program (`Waits`), also those who connected to nobody, and
that `Start` waits for the last program because it holds the listening socket. All thread
steps are one lemma (`ThreadIsOwn`): a step concerns nobody else's label or program.

*Request lines and pages.* That the loops of `accept_request()` come to the reading of `Means`
rests on one fact: there is exactly one place where such a loop stops (`FirstWhere`, from the
least member of a set of places, and `FirstIs`). `MethodIs` shows that a method that was cut short
is none of the two that are served, `UrlIs` and `QuestionIs` that URL, path and query are the parts of
the line between the places of `Means`. After that the invariant carries what is known from call to call:
`Parsed` before `stat()`, `Looked` after it, where it keeps that the present text of the
page meant is always among `versions`, and `Opened`. What has been sent is described byte by byte
(`Passed`): each byte is one some version has at its place, which no later edit takes back, as
`versions` only grows; and until somebody writes into the open file all of them are the first bytes of
what is open, which is a version, so that at the end they are its beginning up to `size`, which is the length of a
version too (`Sized`). All this is inductive
only together with where the path leads (`path = line.place`), hence with the reading of the line.

*The line reader.* `PipeFilled` speaks of the end only; `IInv` adds that
the loop has never written more than the length, has written nothing before it
began, and that without a POST the length is zero (`Filling`); `TypeOK` needs that
there is room for one more byte whenever `get_line` is not about to return (`Room`).
For `LineByLine` and its like, `Course` says where in the request the thread is: in line `i`, whose first `o`
bytes went by in buffers filled to the last (`Place`), and within `get_line` in one of four situations (`Where`): among
the bytes, between CR and what follows it, at a full buffer, at the end of the line; afterwards in
the body, with as many bytes posted as read (`InBody`). `AsSent` connects this place with the byte that comes
next; that a line never ends just where a buffer is full is what the excluded lines of `edge_line` would violate.

*The gateway.* Each step is a step of `HeadReader` or leaves its variables alone
(`StepReads`), so `IInv` and `Course` hold here too. `GInv` adds that the program begins after the head
(`Begun`), that it has read no more than was written for it while the server lives, and what
each way to end says of the counters (`Drained`). `KilledOnly` is inductive with these: a
program that reads ends only when `took = ToRead`, which is the length, so that no byte is
left to be written to it, or when it has taken more than `post_data` holds, which takes a longer body
(`FormFits`: a form that fits never does). `SumRight` joins both: what the calculator has read when it ends is the body (`FormRead`),
which `FilledIn` describes by the places of its two numbers, where `MathAdd` finds them.

*The goods.* `FormFresh` is about forms on screens; `FInv` adds the form a program has
read and not yet shown (`InWork`). Each statement touches the rows of one id and adds that id to
everybody else's `touched`. `NeverBack` needs no invariant but that ids differ: only `AddGoods`
adds a row, under a new id. `Freed` rests on two kinds of objects, `Clean` without a result and
`Loaded` with one that it knows: a program starts with clean ones (`Before`), and its one
statement leaves them clean or loads the innermost (`After`). `TypeOK` needs what every program was asked
(`Asked`) and how many objects it has by now (`Held`): `GInv`. With a willing database `WInv` adds that the goods
on a list are there unless another browser has touched them since (`Lists`), and that every
connection is open (`Ready`); `CrashExcused` is read off its steps. `AlertsExplained` needs no such
hypothesis, only `EInv`: the row a form is sent for is there unless another browser has deleted it
(`Expects`), and the words of a form without a blank field make the row that was entered (`OnlyWanted`). `SearchExact` needs in addition
that a search program has the words of a form somebody filled in (`SInv`), and
where these words stand when a field is empty (`SearchedWords`).

Only model-checked: `Padded`, since `Course` follows clients that stay; and the liveness properties
(`Served`, `Reaped`, `Through`, `Restarts`, `Settled`),
which the prover cannot do, since it has neither fairness nor `ENABLED`. Statements that fail on a
connection that was accepted occur in `misreport` only; that `FormFresh`, `Freed`, `NeverBack` and
`AlertsExplained` hold with them too is what the theorems say. What a recursion over data
would compute is avoided rather than proved: loops over a line are described by the place where they stop.
The theorems inherit the abstractions of section 2 and the provisos of section 3: those about the
server hold until a thread closes a second time, as `cross_talk` shows they must.


## 5. What is not modelled, and why

- `mysql_lib/`: headers and binaries of MySQL, vendored, some 95 of every 100 lines under
  `src/` and no code of this project. What the programs rely on is external in
  `SqlConnecter` and `Goods`. A share of all lines of the repository says therefore little;
  of the project's own C and C++ nearly every statement that changes state is mapped.
- `show_info`, `create_table`, `exe_query` of `sql_connecter`: no program calls them.
- The names of types, which pages show and no statement uses after they were entered.
- Input longer than the arrays it goes to: words of forms (`sscanf` with no width), the path
  (`httpd.c:331`, an array no longer than the URL's). No page or form of the application gets
  there; `LinesAssumption` says so, and for the one array whose size the code does not
  check (`post_data`) it is left open where behind its end the program stops.
- The buffers of standard output that a child whose `execl` failed flushes (`httpd.c:222`).
- Permissions of files and programs.
- Quotes and wildcards in what a user types: a name is a word.
- `conf/httpd.conf` is read by nobody; the Makefiles and the static pages have no
  behaviour of their own, and the links of the pages are the requests of `Goods`.

## 6. Plan

1. Proofs: every invariant and every action property of a passing run but `Padded` has its
   theorem; what a theorem could still do is weaken a hypothesis: `Announces` and `Summable` for requests of
   which the client leaves in the middle, `Serves` for clients that leave.
2. A browser that gives up waiting and asks again (`Goods`), as the server
   neither notices nor stops the first program.

New questions go into the existing runs where the configuration allows, so that
the number of runs stays small: the two runs of a module differ in their
bounds, not in their kind.

## 7. How to run it

    tlc -workers 2 -config Plenty.cfg MCPlenty.tla       # one of the table in section 3
    tlapm HttpdProofs.tla                                # likewise the other seven modules of
                                                         # section 4; a minute or a few each
