------------------------------ MODULE Exchange ------------------------------
(***************************************************************************)
(* One exchange over the daemon's socket, end to end: the command line     *)
(* becomes a request (cli.py), the request a JSON object (protocol.py), the *)
(* object a request again in the daemon, and the response comes back the   *)
(* same way and ends as an exit code.  The peer of the daemon may also be a *)
(* program that sends any object, and the peer of the client a program     *)
(* that answers with any object.                                           *)
(*                                                                         *)
(* An object is a function from some of its keys; a string is one of a few *)
(* that the code tells apart, and so is a Boolean; a frame is its object   *)
(* and whether it is within the size limit.                                *)
(***************************************************************************)
EXTENDS Functions

CONSTANTS
  Peers,       \* what connects: the command line, or a program of its own
  Answerers,   \* what listens: the daemon, or another program
  None         \* no value

ASSUME ExchangeAssumption ==
  /\ Peers \subseteq {"cli", "program"}
  /\ Answerers \subseteq {"daemon", "other"}
  /\ None # "ok"

VARIABLES
  client,       \* where the client is
  request,      \* what the command line asks for
  frame,        \* the object on the way to the daemon
  server,       \* where the daemon is with this connection
  dispatched,   \* the request it dispatches
  reply,        \* the object on the way back
  exit          \* the exit code, or "raised" for an OSError that gets through

exchangeVars == <<client, request, frame, server, dispatched, reply, exit>>

Types == {"keyword_search", "paper_search", "llm_search", "agent_search", "url_fetch",
          "shutdown"}
Scopes == {"web", "paper", "all"}

\* The values of a key: JSON null and a number, the empty string, two strings,
\* and the three scopes.
Null == "null"
NotStrings == {Null, "number"}
Strings == {"empty", "a", "b"} \cup Scopes

-----------------------------------------------------------------------------
(* protocol.py *)

\* The keys of the six parsers.
Required(t) ==
  CASE t \in {"keyword_search", "paper_search"} -> {"type", "query"}
    [] t \in {"llm_search", "agent_search"}     -> {"type", "prompt"}
    [] t = "url_fetch"                          -> {"type", "url", "focus"}
    [] t = "shutdown"                           -> {"type"}

Optional(t) ==
  CASE t \in {"keyword_search", "paper_search"} -> {"provider"}
    [] t \in {"llm_search", "agent_search"}     -> {"provider", "model", "scope"}
    [] OTHER                                    -> {}

Default(key) == IF key = "scope" THEN "web" ELSE Null

\* Mutant of Acceptable: an optional key may be null.
AcceptableOrNull(key, value) ==
  CASE key = "focus" -> value \in Strings \cup {Null}
    [] key = "scope" -> value \in Scopes
    [] OTHER         -> value \in Strings \cup {Null}

Acceptable(key, value) ==
  CASE key = "focus" -> value \in Strings \cup {Null}
    [] key = "scope" -> value \in Scopes
    [] OTHER         -> value \in Strings

WellFormed(object) ==
  /\ "type" \in DOMAIN object /\ object["type"] \in Types
  /\ LET t == object["type"]
     IN /\ Required(t) \subseteq DOMAIN object
        /\ DOMAIN object \subseteq Required(t) \cup Optional(t)
        /\ \A key \in DOMAIN object \ {"type"} : Acceptable(key, object[key])

\* A request has a value, perhaps the default, for each key of its type.
Decode(object) ==
  IF WellFormed(object)
  THEN [key \in Required(object["type"]) \cup Optional(object["type"]) |->
          IF key \in DOMAIN object THEN object[key] ELSE Default(key)]
  ELSE None

request_payload(r) ==
  Restrict(r, {key \in DOMAIN r : key \in Required(r["type"]) \/ r[key] # Default(key)})

ErrorCodes == {"bad_request", "all_providers_failed", "daemon_shutting_down"}

Success(text) == [ok |-> "true", text |-> text]
Error(code) == [ok |-> "false", error |-> code, message |-> "a"]

\* parse_response_frame: is the object a response?
IsResponse(object) ==
  /\ "ok" \in DOMAIN object
  /\ \/ /\ object["ok"] = "true" /\ DOMAIN object = {"ok", "text"}
        /\ object["text"] \in Strings
     \/ /\ object["ok"] = "false" /\ DOMAIN object = {"ok", "error", "message"}
        /\ object["error"] \in ErrorCodes /\ object["message"] \in Strings

-----------------------------------------------------------------------------
(* cli.py *)

EXIT_OK == "ok"
EXIT_ERROR == "error"

\* What a user can type for an argument, and what is left of it.
Typed == {"a", " a ", "empty", "  "}
strip(word) == CASE word = " a " -> "a" [] word = "  " -> "empty" [] OTHER -> word

Commands == {[type |-> t, text |-> x, scope |-> s, provider |-> p, model |-> m, focus |-> f] :
               t \in Types, x \in Typed, s \in Scopes, p \in Typed \cup {Null},
               m \in Typed \cup {Null}, f \in Typed \cup {Null}}

normalize_selector(word) ==
  IF word = Null THEN Null ELSE IF strip(word) = "empty" THEN None ELSE strip(word)

\* A URL that is not empty may still be refused; a focus without text is none.
request_from_args(a) ==
  LET text == strip(a.text)
      asked == [key \in Required(a.type) \cup Optional(a.type) |->
                  CASE key = "type"                        -> a.type
                    [] key \in {"query", "prompt", "url"}  -> text
                    [] key = "scope"                       -> a.scope
                    [] key = "provider"                    -> normalize_selector(a.provider)
                    [] key = "model"                       -> normalize_selector(a.model)
                    [] key = "focus" -> IF a.focus = Null \/ strip(a.focus) = "empty"
                                        THEN Null ELSE strip(a.focus)]
  IN IF \/ a.type # "shutdown" /\ text = "empty"
        \/ \E key \in DOMAIN asked : asked[key] = None
     THEN None ELSE asked

-----------------------------------------------------------------------------
ExchangeInit ==
  /\ client = "start" /\ request = None /\ frame = None
  /\ server = "idle" /\ dispatched = None /\ reply = None /\ exit = None

Exits(code) ==
  /\ client' = "done" /\ exit' = code

\* The command line is refused, or asks for a request.
RunCommand(a) ==
  /\ client = "start" /\ "cli" \in Peers
  /\ \/ /\ request_from_args(a) # None
        /\ request' = request_from_args(a) /\ client' = "connecting"
        /\ UNCHANGED exit
     \/ /\ request_from_args(a) = None \/ a.type = "url_fetch"
        /\ Exits(EXIT_ERROR) /\ UNCHANGED request
  /\ UNCHANGED <<frame, server, dispatched, reply>>

\* Nobody listens: stop has nothing to do, any other command fails.
Unavailable ==
  /\ client = "connecting"
  /\ Exits(IF request["type"] = "shutdown" THEN EXIT_OK ELSE EXIT_ERROR)
  /\ UNCHANGED <<request, frame, server, dispatched, reply>>

\* Connected, written and drained.  The request counts as sent when the client's
\* transport holds none of it, as its last act, wait_closed, waits for that too.
SendRequest ==
  /\ client = "connecting"
  /\ client' = "waiting" /\ server' = "reading"
  /\ frame' = request_payload(request)
  /\ UNCHANGED <<request, dispatched, reply, exit>>

\* Another program sends what it likes.
ProgramSends(object) ==
  /\ client = "start" /\ "program" \in Peers
  /\ client' = "program" /\ server' = "reading"
  /\ frame' = object
  /\ UNCHANGED <<request, dispatched, reply, exit>>

\* The daemon reads the frame: too large, refused, or dispatched.
DaemonReads(fits) ==
  /\ server = "reading" /\ "daemon" \in Answerers
  /\ IF fits /\ Decode(frame) # None
     THEN dispatched' = Decode(frame) /\ server' = "working" /\ UNCHANGED reply
     ELSE reply' = Error("bad_request") /\ server' = "answered" /\ UNCHANGED dispatched
  /\ UNCHANGED <<client, request, frame, exit>>

DaemonAnswers(response) ==
  /\ server = "working"
  /\ reply' = response /\ server' = "answered"
  /\ UNCHANGED <<client, request, frame, dispatched, exit>>

\* Another program answers the client what it likes.
OtherAnswers(object) ==
  /\ client = "waiting" /\ server = "reading" /\ "other" \in Answerers
  /\ reply' = object /\ server' = "answered"
  /\ UNCHANGED <<client, request, frame, dispatched, exit>>

\* The daemon's end of the connection is gone, with the reply perhaps half sent.
DaemonCloses ==
  /\ server \in {"reading", "working", "answered"}
  /\ server' = "closed"
  /\ UNCHANGED <<client, request, frame, dispatched, reply, exit>>

\* Mutant of ClientReads: what is in the reply is not looked at.
ClientTrusts(fits) ==
  /\ client = "waiting" /\ server = "answered"
  /\ Exits(IF fits /\ "ok" \in DOMAIN reply /\ reply["ok"] = "true" THEN EXIT_OK ELSE EXIT_ERROR)
  /\ UNCHANGED <<request, frame, server, dispatched, reply>>

\* The reply has arrived: too large, not a response, or what the daemon says.
ClientReads(fits) ==
  /\ client = "waiting" /\ server = "answered"
  /\ Exits(IF fits /\ IsResponse(reply) /\ reply["ok"] = "true" THEN EXIT_OK ELSE EXIT_ERROR)
  /\ UNCHANGED <<request, frame, server, dispatched, reply>>

\* Mutant of ClientGivesUp: without a limit on the wait.
ClientWaits ==
  /\ client = "waiting" /\ server = "closed"
  /\ Exits(EXIT_ERROR)
  /\ UNCHANGED <<request, frame, server, dispatched, reply>>

\* The wait is over, or the connection ended before the newline.
ClientGivesUp ==
  /\ client = "waiting"
  /\ Exits(EXIT_ERROR)
  /\ UNCHANGED <<request, frame, server, dispatched, reply>>

\* A connection that breaks raises an OSError that is nobody's GatewayError.
ConnectionBreaks ==
  /\ client \in {"connecting", "waiting"}
  /\ Exits("raised")
  /\ UNCHANGED <<request, frame, server, dispatched, reply>>

\* Connecting and sending have no limit of their own: a daemon that accepts no
\* connection or reads nothing keeps the client there.
Connecting == Unavailable \/ SendRequest

\* What ends the wait for the reply; the timer makes it possible at any time.
ClientStep == ClientGivesUp \/ \E fits \in BOOLEAN : ClientReads(fits)

\* What another program sends or answers: any of these keys, or not.
Absent == "absent"
Present(f) == Restrict(f, {key \in DOMAIN f : f[key] # Absent})

SomeObjects ==
  LET word == {"a", Null, Absent}
      text == {"a", Absent}
  IN {Present(f) : f \in [type : Types \cup word, query : word, prompt : text, provider : word,
                           scope : {"web"} \cup word, url : text, focus : word]}

SomeReplies ==
  LET word == {"a", Null, Absent}
  IN {Present(f) : f \in [ok : {"true", "false"} \cup word, text : word,
                           error : {"bad_request"} \cup word, message : word]}

ExchangeNext ==
  \/ \E a \in Commands : RunCommand(a)
  \/ \E object \in SomeObjects : ProgramSends(object)
  \/ Connecting \/ ClientStep \/ ConnectionBreaks
  \/ \E fits \in BOOLEAN : DaemonReads(fits)
  \/ \E response \in {Success("a")} \cup {Error(code) : code \in ErrorCodes} :
       DaemonAnswers(response)
  \/ \E object \in SomeReplies : OtherAnswers(object)
  \/ DaemonCloses

ExchangeSpec == ExchangeInit /\ [][ExchangeNext]_exchangeVars /\ WF_exchangeVars(ClientStep)

-----------------------------------------------------------------------------
\* What the daemon dispatches for a command line is what was asked for, every
\* key, the ones that are left out of the frame included, and nothing blank.
\* Whoever sent it, it is what the frame says: nothing in the frame is ignored or
\* reinterpreted, and only a default can have been left out.
RequestArrivesIntact ==
  dispatched # None =>
    /\ request # None =>
         dispatched = request /\ \A key \in DOMAIN request : strip(request[key]) # "empty"
    /\ DOMAIN frame \subseteq DOMAIN dispatched
    /\ \A key \in DOMAIN dispatched :
         IF key \in DOMAIN frame
         THEN dispatched[key] = frame[key] /\ (frame[key] # Null \/ key = "focus")
         ELSE dispatched[key] = Default(key)

\* Exit code 0 means success: the reply is a complete response that says so, and
\* if the daemon gave it, it answers this very request; or there was nothing to
\* stop.
ExitMeansSuccess ==
  exit = EXIT_OK =>
    \/ request["type"] = "shutdown" /\ frame = None
    \/ reply = Success("a") /\ (dispatched # None => dispatched = request)

\* A command that has sent its request ends, even if the daemon never answers.
\* Until then it depends on a daemon that accepts and reads (see Connecting).
CommandEnds == client = "waiting" ~> client = "done"
=============================================================================
