----------------------------- MODULE Documents -----------------------------
(***************************************************************************)
(* The import of documents into their Milvus collection.  An importer      *)
(* takes one file after the other: it hashes the file, skips what is       *)
(* stored already, extracts the text, splits it and adds the pieces.  For  *)
(* a PDF the text comes from a remote parser (upload, polling, download),  *)
(* from a second one if the first gives none, and from a local library if  *)
(* both give none.  Files change on the disk, the parsers and the database *)
(* fail, and the importer may be stopped anywhere and started again.       *)
(*                                                                         *)
(* One importer runs at a time.  Its config is constant while it runs; the *)
(* dimension of the embeddings may change between two runs.                *)
(***************************************************************************)
EXTENDS Integers, Sequences, FiniteSets, SequencesExt

CONSTANTS
    Paths,        \* files that may be named
    Contents,     \* what may be in a file
    Suffix,       \* suffix of a path
    LocalText,    \* text the local loaders find in a content
    RemoteText,   \* text each remote parser finds in a content
    Big,          \* contents above 10 MB
    Disks,        \* what may be on the disk in the beginning
    Directory,    \* a directory that may be named
    Tree,         \* the paths below it, sorted
    Args,         \* what the importer is called with
    Configs,      \* settings: endpoint, key, agent, langchain, size, overlap
    Absent,       \* no file
    Polls,        \* polls that fit into document_mineru_timeout
    LastRun,      \* runs of the importer (bound of the model)
    LastChange    \* changes from outside (bound of the model)

Supported == {".txt", ".pdf"}
Separators == <<"\n", ".", " ">>
Services == {"v4", "agent"}
Text == Seq(STRING)

ASSUME DocumentsAssumption ==
    /\ Absent \notin Contents /\ Directory \notin Paths
    /\ Disks \subseteq [Paths -> Contents \cup {Absent}]
    /\ Tree \in Seq(Paths)
    /\ \A args \in Args : args \in Seq(Paths \cup {Directory})
    /\ LocalText \in [Contents -> Text]
    /\ RemoteText \in [Services -> [Contents -> Text]]
    /\ Polls \in Nat /\ LastRun \in Nat /\ LastChange \in Nat
    /\ \A c \in Configs : c.size \in Int /\ c.overlap \in Nat

VARIABLES
    disk,      \* content of each path, or Absent
    config,    \* settings of the importer
    fits,      \* has the collection the configured dimension?
    store,     \* the imports stored under each hash
    run,       \* the importer
    results,   \* what it has reported, one record per file
    task,      \* the task at the remote parser
    runs,      \* runs so far
    changes,   \* changes from outside so far
    promised   \* history: contents reported as stored and not removed since

vars == <<disk, config, fits, store, run, results, task, runs, changes, promised>>

Stopped == [at |-> "stopped"]
NoTask  == [state |-> "none", sent |-> Absent]

-----------------------------------------------------------------------------
(* Splitting: a piece is the interval of the text from its first character *)
(* to the one before its end, before blanks at both ends are cut off.      *)

Blanks == {"\n", " "}
IsBlank(text) == \A i \in DOMAIN text : text[i] \in Blanks

(* The last separator of the first kind that there is in (start, end]; end *)
(* itself if there is none.  Positions count from 0.                       *)
SplitAt(text, start, end) ==
    LET At(k) == {p \in (start + 1)..end : text[p + 1] = Separators[k]}
        kinds == {k \in DOMAIN Separators : At(k) # {}}
        first == CHOOSE k \in kinds : \A j \in kinds : k <= j
    IN  IF kinds = {} THEN end
        ELSE CHOOSE p \in At(first) : \A q \in At(first) : q <= p

Bigger(a, b) == IF a > b THEN a ELSE b

NextStart(start, end, overlap) == Bigger(end - overlap, start + 1)

(* The pieces from position s on: the next one, unless it is blank, and    *)
(* those behind it; a piece that reaches the end is the last.              *)
SimpleSplit(text, size, overlap) ==
    LET n == Len(text)
        From[s \in 0..n] ==
            LET cut == IF s + size < n THEN SplitAt(text, s, s + size) ELSE n
                rest == IF cut >= n THEN <<>> ELSE From[NextStart(s, cut, overlap)]
            IN  IF IsBlank(SubSeq(text, s + 1, cut)) THEN rest ELSE <<<<s, cut>>>> \o rest
    IN  IF text = <<>> THEN <<>>
        ELSE IF size <= 0 \/ n <= size THEN <<<<0, n>>>>
        ELSE From[0]

(* _split_documents: blank texts give nothing; the splitters of langchain  *)
(* are taken to return the whole text as one piece.                        *)
Pieces(text) ==
    IF IsBlank(text) THEN <<>>
    ELSE IF config.langchain THEN <<<<0, Len(text)>>>>
    ELSE SimpleSplit(text, config.size, config.overlap)

-----------------------------------------------------------------------------
(* Files, parsers and the store                                            *)

FileNow == disk[run.todo[run.n]]
SuffixNow == Suffix[run.todo[run.n]]

(* add: the wanted ones of the given files, each only once.                *)
AddFiles(seq, files, wanted) ==
    LET After[k \in 0..Len(files)] ==
            IF k = 0 THEN seq
            ELSE LET last == After[k - 1]
                 IN  IF files[k] \in wanted \ ToSet(last) THEN Append(last, files[k])
                     ELSE last
    IN  After[Len(files)]

(* _expand_paths: a directory stands for the supported files in it; a file *)
(* named twice counts once.                                                *)
Expand(args) ==
    LET supported == {p \in Paths : disk[p] # Absent /\ Suffix[p] \in Supported}
        After[k \in 0..Len(args)] ==
            IF k = 0 THEN <<>>
            ELSE IF args[k] = Directory THEN AddFiles(After[k - 1], Tree, supported)
            ELSE AddFiles(After[k - 1], <<args[k]>>, Paths)
    IN  After[Len(args)]

(* Mutant: files are told apart by where they lie.                         *)
HasDocAtPath(hash) ==
    \E i \in DOMAIN store[hash] : store[hash][i].path = run.todo[run.n]

(* has_doc: is anything stored under this hash?                            *)
HasDoc(hash) == store[hash] # <<>>

(* mineru_base_url: the first remote parser needs an address or a key.     *)
HasBaseUrl == config.endpoint \/ config.key

TryLocal == [run EXCEPT !.at = "local", !.stage = "local"]

(* The second remote parser needs no key, but it may be switched off, and  *)
(* the file may be too big for it or gone.                                 *)
TryAgent ==
    IF config.agent /\ FileNow # Absent /\ FileNow \notin Big
    THEN [run EXCEPT !.at = "apply", !.stage = "agent"] ELSE TryLocal

TryFirst == IF HasBaseUrl THEN [run EXCEPT !.at = "apply", !.stage = "v4"] ELSE TryAgent

FirstParser == IF SuffixNow = ".pdf" THEN TryFirst ELSE TryLocal

(* Mutant: whatever a parser returns is taken.                             *)
UsableAlways(text) == TRUE

(* A parser that finds only blanks has found nothing.                      *)
Usable(text) == ~IsBlank(text)

(* The text that the local loader of the suffix finds in the file now.     *)
LocalNow == LocalText[FileNow]

(* What is stored of a file: the hash it was looked up by says under which *)
(* document; the rest is from the file as it was read.                     *)
Metadata == [path |-> run.todo[run.n], of |-> run.read, text |-> run.text,
             pieces |-> Pieces(run.text), changed |-> run.changed]

(* A collection without documents, and what opening one leaves of it: a    *)
(* collection of another dimension is dropped and created anew.            *)
CreateCollection == [c \in Contents |-> <<>>]

EnsureCollection == IF fits THEN store ELSE CreateCollection

(* The importer goes on to the next file.                                  *)
Report(status) ==
    /\ results' = Append(results, [path |-> run.todo[run.n], status |-> status])
    /\ run' = [run EXCEPT !.at = "next", !.n = @ + 1, !.hash = Absent, !.read = Absent,
                          !.text = <<>>, !.left = Polls, !.changed = FALSE]
    /\ promised' = IF status \in {"imported", "duplicate"}
                   THEN promised \cup {IF run.hash = Absent THEN FileNow ELSE run.hash}
                   ELSE promised

Outside == <<disk, config, fits, runs, changes>>

-----------------------------------------------------------------------------
Init ==
    /\ disk \in Disks /\ config \in Configs
    /\ fits = TRUE /\ store = CreateCollection
    /\ run = Stopped /\ results = <<>> /\ task = NoTask
    /\ runs = 0 /\ changes = 0 /\ promised = {}

(* _main: nothing is imported if one file has an unsupported suffix.       *)
(* Opening a collection of another dimension drops it; a dry run only      *)
(* loads and splits the files and does not open it.                        *)
Start(args, dry) ==
    LET todo == Expand(args)
    IN  /\ run = Stopped /\ runs < LastRun
        /\ runs' = runs + 1
        /\ results' = <<>>
        /\ IF todo # <<>> /\ \A i \in DOMAIN todo : Suffix[todo[i]] \in Supported
           THEN /\ run' = [at |-> "next", todo |-> todo, n |-> 1, hash |-> Absent,
                           read |-> Absent, dry |-> dry, stage |-> "local", text |-> <<>>,
                           left |-> Polls, changed |-> FALSE]
                /\ store' = IF dry THEN store ELSE EnsureCollection
                /\ fits' = (fits \/ ~dry)
           ELSE UNCHANGED <<run, store, fits>>
        /\ UNCHANGED <<disk, config, task, changes, promised>>

(* The head of the loop: a file that is there is hashed and looked up.     *)
NextFile ==
    /\ run.at = "next" /\ run.n <= Len(run.todo)
    /\ IF FileNow = Absent THEN Report("missing")
       ELSE IF ~run.dry /\ HasDoc(FileNow) THEN Report("duplicate")
       ELSE /\ run' = [FirstParser EXCEPT !.hash = FileNow]
            /\ UNCHANGED <<results, promised>>
    /\ UNCHANGED <<Outside, store, task>>

(* The file cannot be read or the database not be asked: outside the try,  *)
(* which ends the whole import without a report.                           *)
LookupFails ==
    /\ run.at = "next" /\ run.n <= Len(run.todo) /\ FileNow # Absent /\ ~run.dry
    /\ run' = Stopped /\ results' = <<>>
    /\ UNCHANGED <<Outside, store, task, promised>>

(* Either remote parser gives an upload link, the first one for the hash   *)
(* of the file as it is now; ...                                           *)
LinkGiven ==
    /\ run' = [run EXCEPT !.at = "upload", !.left = Polls]
    /\ task' = NoTask
    /\ UNCHANGED <<Outside, store, results, promised>>

RequestBatchUrls ==
    run.at = "apply" /\ run.stage = "v4" /\ FileNow # Absent /\ LinkGiven

RequestAgentFileUrl == run.at = "apply" /\ run.stage = "agent" /\ LinkGiven

(* ... the file is uploaded as it is now; ...                              *)
UploadFile ==
    /\ run.at = "upload" /\ FileNow # Absent
    /\ run' = [run EXCEPT !.at = "poll", !.read = FileNow]
    /\ task' = [state |-> "pending", sent |-> FileNow]
    /\ UNCHANGED <<Outside, store, results, promised>>

(* Mutant: the deadline moves with every poll.                             *)
TimeLeftReset(left) == {left}

TimeLeft(left) == 0..(left - 1)

(* ... the parser is asked until there is a link to the result: while the  *)
(* task is pending, and when it is done but has no link yet; ...           *)
Asked ==
    /\ run.at = "poll" /\ run.left > 0
    /\ \/ /\ task.state \in {"pending", "done"}
          /\ \E left \in TimeLeft(run.left) : run' = [run EXCEPT !.left = left]
       \/ /\ task.state = "done"
          /\ run' = [run EXCEPT !.at = "download"]
    /\ UNCHANGED <<Outside, store, results, task, promised>>

PollBatchResult == run.stage = "v4" /\ Asked

PollAgentResult == run.stage = "agent" /\ Asked

(* ... and the text is downloaded.  Blanks only: the next parser.          *)
Downloaded(else) ==
    /\ run.at = "download"
    /\ LET text == RemoteText[run.stage][task.sent]
       IN  run' = IF Usable(text) THEN [run EXCEPT !.at = "split", !.text = text] ELSE else
    /\ UNCHANGED <<Outside, store, results, task, promised>>

DownloadMarkdown == run.stage = "v4" /\ Downloaded(TryAgent)

DownloadAgentText == run.stage = "agent" /\ Downloaded(TryLocal)

(* Whatever fails in between, or the deadline passes: the next parser.     *)
Fails(else) ==
    /\ \/ run.at \in {"apply", "upload", "download"}
       \/ run.at = "poll" /\ (run.left = 0 \/ task.state = "failed")
    /\ run' = else
    /\ UNCHANGED <<Outside, store, results, task, promised>>

ParsePdfFails == run.stage = "v4" /\ Fails(TryAgent)

ParsePdfAgentFails == run.stage = "agent" /\ Fails(TryLocal)

(* The local loaders read the file again.                                  *)
LoadLocal ==
    /\ run.at = "local" /\ FileNow # Absent
    /\ run' = [run EXCEPT !.at = "split", !.read = FileNow, !.text = LocalNow]
    /\ UNCHANGED <<Outside, store, results, task, promised>>

(* They fail on a file that is gone, or on a damaged one.                  *)
LoadFails == run.at = "local" /\ Report("error") /\ UNCHANGED <<Outside, store, task>>

NothingToSplit ==
    /\ run.at = "split" /\ Pieces(run.text) = <<>>
    /\ Report("empty")
    /\ UNCHANGED <<Outside, store, task>>

(* add_texts: the pieces are embedded and inserted, all at once.           *)
Insert ==
    store' = [store EXCEPT ![run.hash] = Append(@, Metadata)]

AddTexts ==
    /\ run.at = "split" /\ Pieces(run.text) # <<>>
    /\ IF run.dry THEN Report("parsed") /\ UNCHANGED store
       ELSE Insert /\ Report("imported")
    /\ UNCHANGED <<Outside, task>>

(* The embedding or the insert fails, or only the answer to it.            *)
AddFails ==
    /\ run.at = "split" /\ Pieces(run.text) # <<>> /\ ~run.dry
    /\ UNCHANGED store \/ Insert
    /\ Report("error")
    /\ UNCHANGED <<Outside, task>>

EndOfImport ==
    /\ run.at = "next" /\ run.n > Len(run.todo)
    /\ run' = Stopped
    /\ UNCHANGED <<Outside, store, results, task, promised>>

(* The process is killed.                                                  *)
Crash ==
    /\ run # Stopped
    /\ run' = Stopped /\ results' = <<>>
    /\ UNCHANGED <<Outside, store, task, promised>>

(* The remote parser works on its task.                                    *)
Parse ==
    /\ task.state = "pending"
    /\ \E s \in {"done", "failed"} : task' = [task EXCEPT !.state = s]
    /\ UNCHANGED <<Outside, store, run, results, promised>>

(* A file is written, replaced or removed.                                 *)
Edit(p, c) ==
    /\ changes < LastChange /\ c # disk[p]
    /\ changes' = changes + 1
    /\ disk' = [disk EXCEPT ![p] = c]
    /\ run' = IF run # Stopped /\ run.hash # Absent /\ run.todo[run.n] = p
              THEN [run EXCEPT !.changed = TRUE] ELSE run
    /\ UNCHANGED <<config, fits, store, results, task, runs, promised>>

(* delete_doc, for documents of at most 16384 pieces.                      *)
DeleteDoc(c) ==
    /\ changes < LastChange /\ run = Stopped /\ store[c] # <<>>
    /\ changes' = changes + 1
    /\ store' = [store EXCEPT ![c] = <<>>]
    /\ promised' = promised \ {c}
    /\ UNCHANGED <<disk, config, fits, run, results, task, runs>>

(* Another BOT_EMBED_DIMENSIONS.                                           *)
Reconfigure ==
    /\ changes < LastChange /\ run = Stopped /\ fits
    /\ changes' = changes + 1 /\ fits' = FALSE /\ promised' = {}
    /\ UNCHANGED <<disk, config, store, run, results, task, runs>>

Finished == run = Stopped /\ runs = LastRun /\ UNCHANGED vars

Importer ==
    \/ NextFile \/ LookupFails \/ EndOfImport
    \/ RequestBatchUrls \/ RequestAgentFileUrl \/ UploadFile
    \/ PollBatchResult \/ PollAgentResult \/ DownloadMarkdown \/ DownloadAgentText
    \/ ParsePdfFails \/ ParsePdfAgentFails
    \/ LoadLocal \/ LoadFails \/ NothingToSplit \/ AddTexts \/ AddFails

Next ==
    \/ \E args \in Args, dry \in BOOLEAN : Start(args, dry)
    \/ run # Stopped /\ Importer
    \/ Crash \/ Parse
    \/ \E p \in Paths, c \in Contents \cup {Absent} : Edit(p, c)
    \/ \E c \in Contents : DeleteDoc(c)
    \/ Reconfigure \/ Finished

Spec == Init /\ [][Next]_vars

(* The importer takes its next step: every request has a time limit.       *)
FairSpec == Spec /\ WF_vars(run # Stopped /\ Importer)

-----------------------------------------------------------------------------
(* Properties                                                              *)

(* An importer at work: the file it is at, its hash when it was looked up  *)
(* and its content when it was read, the parser it tries, the text found.  *)
Run == [at : {"next", "apply", "upload", "poll", "download", "local", "split"},
        todo : Seq(Paths), n : Nat, hash : Contents \cup {Absent},
        read : Contents \cup {Absent}, dry : BOOLEAN,
        stage : Services \cup {"local"}, text : Text, left : Nat, changed : BOOLEAN]

Import == [path : Paths, of : Contents, text : Text, pieces : Seq(Nat \X Nat),
           changed : BOOLEAN]

Status == {"missing", "duplicate", "empty", "parsed", "imported", "error"}

TypeOK ==
    /\ disk \in [Paths -> Contents \cup {Absent}]
    /\ config \in Configs /\ fits \in BOOLEAN
    /\ store \in [Contents -> Seq(Import)]
    /\ run \in Run \cup {Stopped}
    /\ run # Stopped => run.n \in 1..(Len(run.todo) + 1) /\ run.left <= Polls
    /\ results \in Seq([path : Paths, status : Status])
    /\ task \in [state : {"none", "pending", "done", "failed"}, sent : Contents \cup {Absent}]
    /\ runs \in 0..LastRun /\ changes \in 0..LastChange
    /\ promised \subseteq Contents

(* Every character that is not blank is in some piece.                     *)
Covers(text, pieces) ==
    \A i \in DOMAIN text : text[i] \in Blanks
        \/ \E k \in DOMAIN pieces : pieces[k][1] < i /\ i <= pieces[k][2]

(* Whatever fails, is stopped or is imported again, under another name or  *)
(* after a lost answer: a content is stored at most once, with its whole   *)
(* text, and under its own hash -- unless the file was replaced while it   *)
(* was being imported.                                                     *)
StoredOnce ==
    /\ TypeOK
    /\ \A c \in Contents :
          /\ Len(store[c]) <= 1
          /\ \A i \in DOMAIN store[c] :
                LET doc == store[c][i]
                IN  /\ doc.of = c \/ doc.changed
                    /\ doc.text \in {LocalText[doc.of]} \cup {RemoteText[s][doc.of] : s \in Services}
                    /\ Covers(doc.text, doc.pieces)

(* The report is true: a line per file in their order; what it calls       *)
(* imported or known is in the store until somebody removes it; and a file *)
(* is called empty only if its content has no local text either, whatever  *)
(* the remote parsers made of it.                                          *)
ReportTrue ==
    /\ run # Stopped => [i \in DOMAIN results |-> results[i].path] = SubSeq(run.todo, 1, run.n - 1)
    /\ \A c \in promised : store[c] # <<>>
    /\ run # Stopped /\ run.at = "split" /\ IsBlank(run.text) => IsBlank(LocalText[run.read])

(* Every import ends, however long the remote parser keeps its task        *)
(* pending, or calls it done without a link.                               *)
ImportsEnd == (run # Stopped) ~> (run = Stopped)

=============================================================================
