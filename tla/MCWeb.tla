-------------------------------- MODULE MCWeb --------------------------------
(* The machines of the web interface for TLC.  They share no state (each   *)
(* belongs to one mounted component and its queries), so that a behaviour  *)
(* is about one of them, and the variables of the others stay empty.       *)
EXTENDS Naturals, Sequences, FiniteSets, WebScreens

CONSTANTS
  MaxMoves, Forms, FormTexts, MoreTexts, MaxEdits,
  Lists, Filters, NoFilter, MaxRows, MaxTurns,
  Searches, NoSearch, Pages, MaxActs,
  Tools, ToolOrgs, MaxSteps, LogOrgs, MaxSubmissions, MaxSwitches,
  Purposes, Clerks, Handlers, LinkPages, MaxLinks, MaxTries

VARIABLES
  machine,    \* the one this behaviour is about
  scenario, place, visit, server, cache, stale, fetch, dialog, calls,
  promised, moves,
  form, record, owner, cached, old, asked, answer, opened, base, behind,
  draft, touched, patch, accepted, edits,
  list, rows, space, filter, rested, pageIndex, totals, reading, turned, turns,
  entries, at, local, debounced, frame, nav, overtaken, acts,
  tool, makes, writers, active, known, workspace, ticks, request, outcome,
  steps,
  selected, canCreate, logForm, submissions, latest, taskId, queuedOrg, poll,
  result, switches,
  frames, body, read, buffer, fields, emitted, heard, closed,
  purpose, links, verified, taken, issues, uses, pages, tries

(* Operations that exclude one another are followed together, each with a  *)
(* query that it writes and some screen reads. *)
Together(screen) == {{}} \cup {c.busy : c \in Screens[screen].controls}
ReadSomewhere == UNION {DOMAIN Screens[screen].reads : screen \in DOMAIN Screens}

Scenarios ==
  UNION {UNION {{[screen |-> s, ops |-> ops, query |-> q] :
                   q \in IF ops = {} THEN DOMAIN Screens[s].reads
                         ELSE UNION {Writes[op] : op \in ops} \cap ReadSomewhere} :
                ops \in Together(s)} :
         s \in DOMAIN Screens}

(* One organization has a choice of packs. *)
Packs == {<<"o1", "p">>, <<"o1", "q">>, <<"o2", "r">>}

(* Bodies that no backend of ours sends: comments, carriage returns, an id,*)
(* data of several lines, an event without data, a last line without end. *)
Texts ==
  LET LF == "\n"
      CR == "\r"
  IN {<<"event:", "token", CR, LF, "data:", "{", CR, LF, "data:", "}", CR, LF, CR, LF>>,
      <<":", LF, LF, "id:", "7", LF, "event:", "token", LF, LF, "data:", "{", LF>>,
      <<"data:", LF, LF, LF, "event:", LF, "data:", "{", "}", LF, "id:", LF, LF, "data:", "}">>,
      <<"event:", "message", LF, LF, "id:", "7", CR, LF, "id:", LF, "data:", "}", CR, CR, LF, CR>>}

(* Answers of the backend *)
Answers ==
  {<<"conversation", "token", "token", "completed">>, <<"token", "error">>, <<"token", "heartbeat">>}

OnPage == INSTANCE WebPages
InForm == INSTANCE WebForms
InList == INSTANCE WebLists
AtAddress == INSTANCE ArtifactsUrl
InTool == INSTANCE WebGenerators
InLog == INSTANCE WebLogs
InStream == INSTANCE SseParser
ByMail == INSTANCE EmailTokens

pageVars ==
  <<scenario, place, visit, server, cache, stale, fetch, dialog, calls,
    promised, moves>>
formVars ==
  <<form, record, owner, cached, old, asked, answer, opened, base, behind,
    draft, touched, patch, accepted, edits>>
listVars ==
  <<list, rows, space, filter, rested, pageIndex, totals, reading, turned,
    turns>>
urlVars ==
  <<entries, at, local, debounced, frame, nav, overtaken, acts>>
toolVars ==
  <<tool, makes, writers, active, known, workspace, ticks, request,
    outcome, steps>>
logVars ==
  <<selected, canCreate, logForm, submissions, latest, taskId, queuedOrg,
    poll, result, switches>>
sseVars ==
  <<frames, body, read, buffer, fields, emitted, heard, closed>>
mailVars ==
  <<purpose, links, verified, taken, issues, uses, pages, tries>>

vars == <<machine, pageVars, formVars, listVars, urlVars, toolVars, logVars, sseVars, mailVars>>

(* The bounds of the runs *)
ASSUME BoundsAssumption ==
  {MaxMoves, MaxEdits, MaxRows, MaxTurns, MaxActs, MaxSteps, MaxSubmissions, MaxSwitches,
   MaxLinks, MaxTries} \subseteq Nat

(* Forms are rows of the table; "null" stands for JSON null, which no text *)
(* is. *)
ASSUME FormsAssumption ==
  Forms \subseteq DOMAIN InForm!FormTable /\ "null" \notin FormTexts \cup MoreTexts

(* A list opens with one of its filters. *)
ASSUME ListsAssumption == NoFilter \in Filters

(* Tools are rows of the table. *)
ASSUME ToolsAssumption == Tools \subseteq DOMAIN InTool!ToolTable

(* The address without a query is the first page of everything. *)
ASSUME AddressAssumption == NoSearch \in Searches /\ 1 \in Pages

(* The machines that a behaviour is not about *)
NoPage ==
  /\ scenario = <<>> /\ place = <<>> /\ visit = <<>> /\ server = <<>>
  /\ cache = <<>> /\ stale = <<>> /\ fetch = <<>> /\ dialog = <<>>
  /\ calls = <<>> /\ promised = <<>> /\ moves = <<>>
NoForm ==
  /\ form = <<>> /\ record = <<>> /\ owner = <<>> /\ cached = <<>>
  /\ old = <<>> /\ asked = <<>> /\ answer = <<>> /\ opened = <<>>
  /\ base = <<>> /\ behind = <<>> /\ draft = <<>> /\ touched = <<>>
  /\ patch = <<>> /\ accepted = <<>> /\ edits = <<>>
NoList ==
  /\ list = <<>> /\ rows = <<>> /\ space = <<>> /\ filter = <<>>
  /\ rested = <<>> /\ pageIndex = <<>> /\ totals = <<>> /\ reading = <<>>
  /\ turned = <<>> /\ turns = <<>>
NoAddress ==
  /\ entries = <<>> /\ at = <<>> /\ local = <<>> /\ debounced = <<>>
  /\ frame = <<>> /\ nav = <<>> /\ overtaken = <<>> /\ acts = <<>>
NoTool ==
  /\ tool = <<>> /\ makes = <<>> /\ writers = <<>> /\ active = <<>>
  /\ known = <<>> /\ workspace = <<>> /\ ticks = <<>> /\ request = <<>>
  /\ outcome = <<>> /\ steps = <<>>
NoLog ==
  /\ selected = <<>> /\ canCreate = <<>> /\ logForm = <<>>
  /\ submissions = <<>> /\ latest = <<>> /\ taskId = <<>>
  /\ queuedOrg = <<>> /\ poll = <<>> /\ result = <<>> /\ switches = <<>>
NoStream ==
  /\ frames = <<>> /\ body = <<>> /\ read = <<>> /\ buffer = <<>>
  /\ fields = <<>> /\ emitted = <<>> /\ heard = <<>> /\ closed = <<>>
NoMail ==
  /\ purpose = <<>> /\ links = <<>> /\ verified = <<>> /\ taken = <<>>
  /\ issues = <<>> /\ uses = <<>> /\ pages = <<>> /\ tries = <<>>

Machines == {"page", "form", "list", "address", "tool", "log", "stream", "mail"}

MCInit ==
  /\ machine \in Machines
  /\ IF machine = "page" THEN OnPage!PageInit ELSE NoPage
  /\ IF machine = "form" THEN InForm!FormInit ELSE NoForm
  /\ IF machine = "list" THEN InList!PagingInit ELSE NoList
  /\ IF machine = "address" THEN AtAddress!ListInit ELSE NoAddress
  /\ IF machine = "tool" THEN InTool!ToolInit ELSE NoTool
  /\ IF machine = "log" THEN InLog!LogInit ELSE NoLog
  /\ IF machine = "stream" THEN InStream!SseInit ELSE NoStream
  /\ IF machine = "mail" THEN ByMail!MailInit ELSE NoMail

(* All machines but m stay as they are. *)
Still(m) ==
  /\ machine = m /\ UNCHANGED machine
  /\ IF m = "page" THEN TRUE ELSE UNCHANGED pageVars
  /\ IF m = "form" THEN TRUE ELSE UNCHANGED formVars
  /\ IF m = "list" THEN TRUE ELSE UNCHANGED listVars
  /\ IF m = "address" THEN TRUE ELSE UNCHANGED urlVars
  /\ IF m = "tool" THEN TRUE ELSE UNCHANGED toolVars
  /\ IF m = "log" THEN TRUE ELSE UNCHANGED logVars
  /\ IF m = "stream" THEN TRUE ELSE UNCHANGED sseVars
  /\ IF m = "mail" THEN TRUE ELSE UNCHANGED mailVars

MCNext ==
  \/ Still("page") /\ OnPage!PageNext
  \/ Still("form") /\ InForm!FormNext
  \/ Still("list") /\ InList!PagingNext
  \/ Still("address") /\ AtAddress!ListNext
  \/ Still("tool") /\ InTool!ToolNext
  \/ Still("log") /\ InLog!LogNext
  \/ Still("stream") /\ InStream!SseNext
  \/ Still("mail") /\ ByMail!MailNext

Spec == MCInit /\ [][MCNext]_vars

-----------------------------------------------------------------------------
(* The properties of the machines, each where it is about one of them      *)

(* The type invariant of each machine *)
WebTypeOK ==
  /\ machine = "page" => OnPage!PagesTypeOK
  /\ machine = "form" => InForm!FormsTypeOK
  /\ machine = "list" => InList!ListsTypeOK
  /\ machine = "address" => AtAddress!ListTypeOK
  /\ machine = "tool" => InTool!ToolsTypeOK
  /\ machine = "log" => InLog!LogsTypeOK
  /\ machine = "mail" => ByMail!MailTypeOK

(* What a screen shows as current includes the user's acknowledged writes. *)
OwnWritesShown == machine = "page" => OnPage!OwnWritesShown

(* An opened dialog does its operation once. *)
SentOnce == machine = "page" => OnPage!SentOnce

(* A refusal tells of a change of the role. *)
RefusalsAreNews == [][machine = "page" => OnPage!RefusalIsNews]_vars

(* What a form had accepted is what its page shows. *)
AcceptedIsShown == machine = "form" => InForm!AcceptedIsShown

(* A form does not undo what its user had accepted before. *)
OwnEditKept == [][machine = "form" => InForm!KeepsOwnEdit]_vars

(* A list of artifacts is the one its address names. *)
ListIsAddress == machine = "address" => AtAddress!ListIsAddress

(* A list that is shown as empty has no rows. *)
EmptyMeansNone == machine = "list" => InList!EmptyMeansNone

(* What was made was saved and judged as the form asked. *)
GeneratedAsAsked == machine = "tool" => InTool!GeneratedAsAsked

(* The analysis shown is that of the last log. *)
AnalysisIsCurrent == machine = "log" => InLog!AnalysisIsCurrent

(* A stream is read the same however it is cut into chunks. *)
AnswerRead == machine = "stream" => InStream!ParsedAsWhole /\ InStream!ReadAsSent

(* A mailed link works once, and only the last one. *)
LinksWorkOnce == machine = "mail" => ByMail!LinksWorkOnce

(* What the page of a link says of it is true. *)
PagesTellTheTruth == machine = "mail" => ByMail!PagesTellTheTruth

(* save-options-fields.tsx "Leave empty to use all active packs". *)
EmptyMeansAll == machine = "tool" => InTool!EmptyMeansAll
=============================================================================
