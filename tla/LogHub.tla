------------------------------ MODULE LogHub ------------------------------
(***************************************************************************)
(* The live log of the console: the bot process writes its log lines into  *)
(* a file that it creates anew with every start, another process tails the *)
(* file for every browser that is connected and feeds a bounded queue per  *)
(* browser, from which the lines go out over a WebSocket.                  *)
(*                                                                         *)
(* The file is a sequence of writes: a short line is one write, a line     *)
(* that does not fit the buffer of the stream is two, and the reader may   *)
(* come in between.  A position is a number of writes.                     *)
(***************************************************************************)
EXTENDS Integers, FiniteSets, Sequences, SequencesExt

CONSTANTS
    Browsers,
    LastRun,   \* starts of the bot (bound of the model)
    LastEntry, \* log entries of one run (bound of the model)
    Long,      \* the entries among them that are written in two parts
    QueueMax,  \* lines kept for a browser (10000 in the code)
    LastBreak  \* connections that break (bound of the model)

ASSUME LogAssumption ==
    /\ LastRun \in Nat /\ LastEntry \in Nat /\ Long \subseteq 1..LastEntry
    /\ QueueMax \in Nat \ {0} /\ LastBreak \in Nat

Off == -1

VARIABLES
    run,      \* starts of the bot; the file exists from the first one on
    file,     \* writes of this run: [entry, part]
    open,     \* browsers that show the log page
    breaks,   \* connections that broke
    pos,      \* per browser: offset into the file, Off when not subscribed
    queue,    \* per browser: entries to be sent
    got,      \* per browser: what this connection has brought it
    poll,     \* _read_new in progress: the size it saw, who is to be read for
    dropped,  \* history: per browser, entries dropped from a full queue
    stale     \* history: browsers whose offset is one of an earlier run

hubVars == <<pos, queue, got, poll, dropped>>
pageVars == <<open, breaks>>
vars == <<run, file, pageVars, hubVars, stale>>

NoPoll == [size |-> 0, todo |-> {}]

Init ==
    /\ run = 0 /\ file = <<>> /\ open = {} /\ breaks = 0
    /\ pos = [b \in Browsers |-> Off] /\ queue = [b \in Browsers |-> <<>>]
    /\ got = [b \in Browsers |-> <<>>] /\ dropped = [b \in Browsers |-> {}]
    /\ poll = NoPoll /\ stale = {}

Subscribers == {b \in Browsers : pos[b] # Off}

-----------------------------------------------------------------------------
(* The bot: WebConsoleHandler                                              *)

(* Opened with mode "w".                                                   *)
StartBot ==
    /\ run < LastRun /\ run' = run + 1
    /\ file' = <<>>
    /\ stale' = stale \cup {b \in Browsers : pos[b] > 0}
    /\ UNCHANGED <<pageVars, hubVars>>

HalfWritten == file # <<>> /\ Last(file).part = "head"

Emit ==
    /\ run > 0 /\ ~HalfWritten
    /\ LET n == IF file = <<>> THEN 1 ELSE Last(file).entry[2] + 1
       IN  /\ n <= LastEntry
           /\ file' = Append(file, [entry |-> <<run, n>>,
                                    part |-> IF n \in Long THEN "head" ELSE "line"])
    /\ UNCHANGED <<run, stale, pageVars, hubVars>>

EmitRest ==
    /\ HalfWritten
    /\ file' = Append(file, [entry |-> Last(file).entry, part |-> "tail"])
    /\ UNCHANGED <<run, stale, pageVars, hubVars>>

-----------------------------------------------------------------------------
(* LogHub: one task, in which nothing of the console comes in between      *)

Calm == poll.todo = {}

(* Mutant: the tail begins at the end of the file.                         *)
FirstPosAtEnd == Len(file)

FirstPos == 0

(* stat: the size is the one of now, the files are opened later.           *)
Stat(readers) == [size |-> Len(file), todo |-> readers]

(* connect, again and again while there is no connection, and subscribe:   *)
(* from the beginning, read at once.                                       *)
Subscribe(b) ==
    /\ Calm /\ b \in open /\ pos[b] = Off
    /\ pos' = [pos EXCEPT ![b] = FirstPos]
    /\ poll' = IF run = 0 THEN NoPoll ELSE Stat(Subscribers \cup {b})
    /\ queue' = [queue EXCEPT ![b] = <<>>]
    /\ got' = [got EXCEPT ![b] = <<>>]
    /\ dropped' = [dropped EXCEPT ![b] = {}]
    /\ stale' = stale \ {b}
    /\ UNCHANGED <<run, file, pageVars>>

(* Every poll_interval.                                                    *)
Poll ==
    /\ Calm /\ Subscribers # {} /\ run > 0
    /\ poll' = Stat(Subscribers)
    /\ UNCHANGED <<run, file, pageVars, pos, queue, got, dropped, stale>>

(* Mutant: a file that has become shorter is not noticed.                  *)
ResumeNever(p) == p

(* A file shorter than the offset is a new one.                            *)
Resume(p) == IF poll.size < p THEN 0 ELSE p

(* Mutant: the offset is the size that was seen at first.                  *)
ReadToSize(p) == IF poll.size > p THEN poll.size ELSE p

(* tell() after reading to the end; a seek beyond the end stays there.     *)
ReadTo(p) == IF Len(file) > p THEN Len(file) ELSE p

(* Whole lines of what was read from offset p on; half a line is no JSON   *)
(* and is skipped, so of a line in two parts both have to be read.         *)
LineEnds(p) ==
    {i \in (p + 1)..Len(file) : \/ file[i].part = "line"
                                \/ file[i].part = "tail" /\ i > p + 1}

(* The line ends in the order of the file.                                 *)
InFileOrder(ends) ==
    {f \in [1..Cardinality(ends) -> ends] : \A j, k \in DOMAIN f : j < k => f[j] < f[k]}

(* Mutant: a full queue refuses what is new.                               *)
KeptOldest(lines) == IF Len(lines) <= QueueMax THEN lines ELSE SubSeq(lines, 1, QueueMax)

(* _broadcast: a full queue loses its oldest line.                         *)
Kept(lines) ==
    IF Len(lines) <= QueueMax THEN lines
    ELSE SubSeq(lines, Len(lines) - QueueMax + 1, Len(lines))

Read(b) ==
    /\ b \in poll.todo
    /\ poll' = [poll EXCEPT !.todo = @ \ {b}]
    /\ LET p == Resume(pos[b])
       IN  IF poll.size = p THEN UNCHANGED <<pos, queue, dropped, stale>>
           ELSE \E f \in InFileOrder(LineEnds(p)) :
                  LET lines == queue[b] \o [k \in DOMAIN f |-> file[f[k]].entry]
                  IN  /\ pos' = [pos EXCEPT ![b] = ReadTo(p)]
                      /\ queue' = [queue EXCEPT ![b] = Kept(lines)]
                      /\ dropped' = [dropped EXCEPT ![b] =
                                        @ \cup (Range(lines) \ Range(Kept(lines)))]
                      /\ stale' = IF p = 0 THEN stale \ {b} ELSE stale
    /\ UNCHANGED <<run, file, pageVars, got>>

(* The file ends in half a character: the read raises, the others wait for *)
(* the next time, too.                                                     *)
ReadRaises ==
    /\ ~Calm /\ HalfWritten
    /\ poll' = NoPoll
    /\ UNCHANGED <<run, file, pageVars, pos, queue, got, dropped, stale>>

-----------------------------------------------------------------------------
(* logs_ws, and the page: useLogsStore                                     *)

Send(b) ==
    /\ Calm /\ pos[b] # Off /\ queue[b] # <<>>
    /\ got' = [got EXCEPT ![b] = Append(@, Head(queue[b]))]
    /\ queue' = [queue EXCEPT ![b] = Tail(@)]
    /\ UNCHANGED <<run, file, pageVars, pos, poll, dropped, stale>>

Unsubscribe(b) ==
    /\ pos' = [pos EXCEPT ![b] = Off]
    /\ queue' = [queue EXCEPT ![b] = <<>>]
    /\ UNCHANGED <<run, file, got, poll, dropped, stale>>

(* The connection breaks; the page sets its timer to connect again.        *)
Break(b) ==
    /\ Calm /\ pos[b] # Off /\ breaks < LastBreak
    /\ breaks' = breaks + 1
    /\ Unsubscribe(b)
    /\ UNCHANGED open

(* The page is shown: connect.                                             *)
OpenPage(b) ==
    /\ b \notin open /\ open' = open \cup {b}
    /\ UNCHANGED <<run, file, breaks, hubVars, stale>>

(* It is left: disconnect, and no timer any more.                          *)
ClosePage(b) ==
    /\ Calm /\ b \in open /\ open' = open \ {b}
    /\ Unsubscribe(b)
    /\ UNCHANGED breaks

BotStep == StartBot \/ Emit \/ EmitRest
HubStep == Poll \/ (\E b \in Browsers : Read(b)) \/ ReadRaises

Next ==
    \/ BotStep \/ HubStep
    \/ \E b \in Browsers : \/ Subscribe(b) \/ Send(b) \/ Break(b)
                           \/ OpenPage(b) \/ ClosePage(b)

Spec == Init /\ [][Next]_vars

(* The console polls and sends on, also while it is connected to others;   *)
(* the bot finishes a line it has begun; a page without a connection tries *)
(* again every two seconds.                                                *)
Fairness ==
    /\ WF_vars(HubStep) /\ WF_vars(EmitRest)
    /\ \A b \in Browsers : SF_vars(Send(b)) /\ SF_vars(Subscribe(b))

FairSpec == Spec /\ Fairness

-----------------------------------------------------------------------------
(* Properties                                                              *)

Entries == (1..LastRun) \X (1..LastEntry)

TypeOK ==
    /\ run \in 0..LastRun
    /\ file \in Seq([entry : Entries, part : {"line", "head", "tail"}])
    /\ pos \in [Browsers -> Nat \cup {Off}]
    /\ queue \in [Browsers -> Seq(Entries)] /\ got \in [Browsers -> Seq(Entries)]
    /\ \A b \in Browsers : Len(queue[b]) <= QueueMax
    /\ dropped \in [Browsers -> SUBSET Entries]
    /\ open \subseteq Browsers /\ Subscribers \subseteq open /\ breaks \in 0..LastBreak
    /\ poll \in [size : Nat, todo : SUBSET Subscribers]
    /\ stale \subseteq Browsers

Older(x, y) == x[1] < y[1] \/ (x[1] = y[1] /\ x[2] < y[2])

(* A connection brings every line at most once and in the order written,   *)
(* restarts of the bot and lines dropped in between included.              *)
OrderOnce ==
    TypeOK /\ \A b \in Browsers :
        LET lines == got[b] \o queue[b]
        IN  \A i, j \in DOMAIN lines : i < j => Older(lines[i], lines[j])

(* Of the run it is reading, a browser has been given every short line up  *)
(* to its offset, from the first one on, or the line was dropped from its  *)
(* full queue.                                                             *)
Complete ==
    \A b \in Subscribers \ stale :
        \A i \in DOMAIN file :
            i <= pos[b] /\ file[i].part = "line" =>
                file[i].entry \in Range(got[b]) \cup Range(queue[b]) \cup dropped[b]

(* Only a full queue loses lines, and only those older than all it keeps.  *)
DropsOldest ==
    [][\A b \in Browsers : \A e \in dropped'[b] \ dropped[b] :
          /\ Len(queue'[b]) = QueueMax
          /\ \A i \in DOMAIN queue'[b] : Older(e, queue'[b][i])]_vars

(* A short line reaches every page that stays open, or is dropped from its *)
(* full queue; also when the connection broke, and when the bot was        *)
(* restarted since, if the new file did not outgrow the browser's offset   *)
(* before it was read.                                                     *)
EventuallyShown ==
    \A b \in Browsers, n \in (1..LastEntry) \ Long :
        LET Written == \E i \in DOMAIN file : file[i].entry = <<LastRun, n>>
            Misled  == b \in stale /\ pos[b] <= Len(file)
        IN  Written /\ b \in open /\ ~Misled
              ~> \/ <<LastRun, n>> \in Range(got[b]) \cup dropped[b]
                 \/ b \notin open \/ Misled

=============================================================================
