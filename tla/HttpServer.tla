----------------------------- MODULE HttpServer -----------------------------
(* NetCode/7.http: a detached thread for each connection receives once,    *)
(* takes what it got for the whole request, answers and closes. All        *)
(* threads share the tables of one HttpServer object.                      *)
EXTENDS FiniteSets, Naturals

CONSTANTS
  Browsers,     \* one connection each
  Requests,     \* [method, target, args]: args stand in the url or the body
  Pages,        \* regular files of wwwroot with a content
  Services,     \* what InsertService was called for; Server.cc: "/login"
  Suffix,       \* of a target, as a function; ".default" if it has none
  Garbage       \* what an _status nobody has written may hold

VARIABLES
  conn,         \* where each connection stands
  request, cut, \* what the browser sends, and where its first segment ends
  arrived,      \* the browsers whose first segment, or hang-up, has arrived
  whole,        \* those whose whole request has
  got,          \* how far the request reached that the thread received
  mime,         \* the suffixes in _mime_type
  damaged,      \* an insertion into _mime_type has met another access
  answer,       \* what the thread has to send
  seen,         \* what the browser has received
  alive         \* the process runs

httpVars == <<conn, request, cut, arrived, whole, got, mime, damaged, answer, seen, alive>>

(* Before the request (a browser that leaves), in the request line, in a   *)
(* header, between the lines of the header, behind it, in the body, or     *)
(* nowhere.                                                                *)
Cuts == {"before", "line", "header", "lines", "end", "body", "nowhere"}
Nothing == [status |-> 0, content |-> "nothing"]

Init ==
  /\ conn = [b \in Browsers |-> "away"]
  /\ request \in [Browsers -> Requests] /\ cut \in [Browsers -> Cuts]
  /\ arrived = {} /\ whole = {} /\ got = [b \in Browsers |-> "nowhere"]
  /\ mime = {".html", ".jpg", ".png", ".default"} /\ damaged = FALSE
  /\ answer = [b \in Browsers |-> Nothing] /\ seen = [b \in Browsers |-> Nothing]
  /\ alive = TRUE

TypeOK ==
  /\ conn \in [Browsers -> {"away", "queued", "recv", "file", "lookup", "send",
                            "closed", "forgotten"}]
  /\ arrived \subseteq Browsers /\ whole \subseteq Browsers /\ got \in [Browsers -> Cuts]
  /\ mime \subseteq {Suffix[t] : t \in DOMAIN Suffix} \cup {".html", ".jpg", ".png", ".default"}
  /\ damaged \in BOOLEAN /\ alive \in BOOLEAN
-----------------------------------------------------------------------------
(* What Deserialize makes of the part of a request that was received. A    *)
(* piece of a line without its end is no header: it is left over and taken *)
(* for the body. The arguments in the url of a GET replace it.             *)

(* MUTANT of Arguments: the rest of the text is looked at after the url. *)
Arguments_RestLast(r, upTo) ==
  IF upTo \in {"line", "header"} THEN "piece"
  ELSE IF r.method = "GET" THEN IF r.args THEN "args" ELSE "none"
  ELSE IF upTo \in {"lines", "end"} \/ ~r.args THEN "none"
  ELSE IF upTo = "body" THEN "piece" ELSE "args"

Arguments(r, upTo) ==
  IF r.method = "GET" /\ r.args /\ upTo # "line" THEN "args"
  ELSE IF upTo \in {"line", "header"} THEN "piece"
  ELSE IF r.method = "GET" \/ upTo \in {"lines", "end"} \/ ~r.args THEN "none"
  ELSE IF upTo = "body" THEN "piece" ELSE "args"

(* ParseReqline: without a whole request line there is no path. *)
Target(r, upTo) == IF upTo = "line" THEN "" ELSE r.target

isServiceExists(t) == t \in Services
Login(args) == [status |-> 200, content |-> args]
Status(code) == [status |-> code, content |-> "nothing"]

(* HandlerRequest, but for files: they take a look at _mime_type. *)
Immediate(r, upTo) ==
  LET t == Target(r, upTo) args == Arguments(r, upTo) IN
    CASE t = "/redir" -> {Status(302)}
      [] t # "/redir" /\ args # "none" /\ isServiceExists(t) -> {Login(args)}
      [] t # "/redir" /\ args # "none" /\ ~isServiceExists(t) -> {Status(s) : s \in Garbage}
      [] OTHER -> {}

(* The entry of _mime_type a file's answer asks for. *)
Entry(t) == IF t \in Pages THEN Suffix[t] ELSE ".html"
FileAnswer(t, type) == [status |-> IF t \in Pages THEN 200 ELSE 404, content |-> type]
-----------------------------------------------------------------------------
Move(b, to) == conn' = [conn EXCEPT ![b] = to]

Connect(b) ==
  /\ alive /\ conn[b] = "away" /\ Move(b, "queued")
  /\ UNCHANGED <<request, cut, arrived, whole, got, mime, damaged, answer, seen, alive>>

(* The first segment, at any time or never. *)
SendRequest(b) ==
  /\ conn[b] # "away" /\ b \notin arrived /\ arrived' = arrived \cup {b}
  /\ IF cut[b] = "nowhere" THEN whole' = whole \cup {b} ELSE UNCHANGED whole
  /\ UNCHANGED <<conn, request, cut, got, mime, damaged, answer, seen, alive>>

SendRest(b) ==
  /\ b \in arrived \ whole /\ cut[b] # "before"
  /\ whole' = whole \cup {b}
  /\ UNCHANGED <<conn, request, cut, arrived, got, mime, damaged, answer, seen, alive>>

(* Start: nobody looks whether pthread_create has made a thread. *)
Accepter(b) == alive /\ conn[b] = "queued"
Start(b) ==
  /\ Accepter(b) /\ (Move(b, "recv") \/ Move(b, "forgotten"))
  /\ UNCHANGED <<request, cut, arrived, whole, got, mime, damaged, answer, seen, alive>>

(* One Recv takes what has arrived, and waits for it without a limit. *)
Received(b) == IF b \in whole THEN "nowhere" ELSE cut[b]
Unread(b) == got[b] # "nowhere"

(* Execute, up to the table of types. *)
Execute(b) ==
  /\ alive /\ conn[b] = "recv" /\ b \in arrived
  /\ LET upTo == Received(b)
         ready == Immediate(request[b], upTo)
     IN
       /\ got' = [got EXCEPT ![b] = upTo]
       /\ \/ upTo = "before" /\ Move(b, "closed") /\ UNCHANGED answer
          \/ upTo # "before" /\ ready = {} /\ Move(b, "file") /\ UNCHANGED answer
          \/ upTo # "before" /\ Move(b, "send")
             /\ \E a \in ready : answer' = [answer EXCEPT ![b] = a]
  /\ UNCHANGED <<request, cut, arrived, whole, mime, damaged, seen, alive>>

EntryOf(b) == Entry(Target(request[b], got[b]))
Inserts(b) == EntryOf(b) \notin mime

(* operator[] inserts what it does not find, and no lock is held. *)
BeginLookup(b) ==
  /\ alive /\ conn[b] = "file" /\ Move(b, "lookup")
  /\ damaged' = (damaged \/ \E d \in Browsers :
                   conn[d] = "lookup" /\ (Inserts(b) \/ Inserts(d)))
  /\ UNCHANGED <<request, cut, arrived, whole, got, mime, answer, seen, alive>>

(* In a damaged table anything may be found, or nothing ever. *)
EndLookup(b) ==
  /\ alive /\ conn[b] = "lookup"
  /\ mime' = mime \cup {EntryOf(b)}
  /\ \/ /\ Move(b, "send") /\ UNCHANGED alive
        /\ \E type \in {EntryOf(b)} \cup (IF damaged THEN {"wrong"} ELSE {}) :
             answer' = [answer EXCEPT ![b] = FileAnswer(Target(request[b], got[b]), type)]
     \/ damaged /\ alive' = FALSE /\ UNCHANGED <<conn, answer>>
  /\ UNCHANGED <<request, cut, arrived, whole, got, damaged, seen>>

(* Send and Close. Bytes that came and were not received, now or later,    *)
(* reset the connection, and the answer may be lost with it.               *)
SendAnswer(b) ==
  /\ alive /\ conn[b] = "send" /\ Move(b, "closed")
  /\ \/ seen' = [seen EXCEPT ![b] = answer[b]]
     \/ Unread(b) /\ UNCHANGED seen
  /\ UNCHANGED <<request, cut, arrived, whole, got, mime, damaged, answer, alive>>
-----------------------------------------------------------------------------
Thread(b) == Start(b) \/ Execute(b) \/ BeginLookup(b) \/ EndLookup(b) \/ SendAnswer(b)
Next == \E b \in Browsers : Connect(b) \/ SendRequest(b) \/ SendRest(b) \/ Thread(b)
-----------------------------------------------------------------------------
(* What an answer to a whole request is; none is defined for arguments to  *)
(* what is no service.                                                     *)
Fitting(r) ==
  CASE r.target = "/redir" -> {Status(302)}
    [] r.target # "/redir" /\ r.args /\ r.target \in Services -> {Login("args")}
    [] r.target # "/redir" /\ r.args /\ r.target \notin Services -> {Status(s) : s \in Garbage}
    [] OTHER -> {FileAnswer(r.target, Entry(r.target))}

(* Where a request may be cut and is understood all the same: a GET whose  *)
(* arguments stand in its url, a redirection, and a GET behind whole lines *)
(* need no more than the request line.                                     *)
SafeCut(r) ==
  {"nowhere"}
    \cup (IF r.target = "/redir" THEN Cuts \ {"before", "line"} ELSE {})
    \cup (IF r.method = "GET" /\ r.args THEN Cuts \ {"before", "line"} ELSE {})
    \cup (IF r.method = "GET" \/ ~r.args THEN {"lines", "end", "body"} ELSE {})

(* HandlerRequest: a browser gets what fits its request, unless the part   *)
(* the thread received ended where a cut does harm, or an insertion into   *)
(* _mime_type met another access; for that, two threads must have been at  *)
(* work on files, one of them with a suffix nobody has asked for before.   *)
AnswersFit ==
  /\ \A b \in Browsers :
       seen[b] # Nothing /\ got[b] \in SafeCut(request[b]) /\ ~damaged
         => seen[b] \in Fitting(request[b])
  /\ damaged => \E b, d \in Browsers :
       /\ b # d /\ EntryOf(b) \notin {".html", ".jpg", ".png", ".default"}
       /\ \A x \in {b, d} : Immediate(request[x], got[x]) = {}
  /\ ~alive => damaged

(* Execute: every connection that gets a thread is answered and closed,    *)
(* unless its browser neither sends nor hangs up: that one keeps its       *)
(* thread, and nobody else's. The end of the process ends all.             *)
AllClosed ==
  alive => \A b \in Browsers :
    \/ conn[b] \in {"away", "closed", "forgotten"}
    \/ conn[b] = "recv" /\ b \notin arrived
=============================================================================
