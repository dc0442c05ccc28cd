----------------------------- MODULE GitHubApi -----------------------------
(***************************************************************************)
(* How scripts/release_control.py judges one run of "gh api": what a read  *)
(* returns, when it is tried again, and what is known after a write.       *)
(*                                                                         *)
(* An outcome is what the process leaves behind.  Bytes, header lines and  *)
(* error prose are reduced to the classes the code tells apart.            *)
(***************************************************************************)
EXTENDS Integers, FiniteSets

Attempts == 3                             \* API_READ_ATTEMPTS

\* framing: is everything there and well formed, only the headers but not the
\* document of a single answer ("cut"), or not even the headers, or a page of a
\* paginated read ("broken")?  prose: what the diagnostics speak of.
Outcomes ==
    [timeout : BOOLEAN, exit : {0, 1, 2}, framing : {"whole", "cut", "broken"},
     status : {"2xx", "403", "404", "5xx"}, prose : {"none", "transport", "denial"}]

\* The headers of an answer arrived, and those of a success.
Answered(o) == ~o.timeout /\ o.framing # "broken"
Succeeded(o) == Answered(o) /\ o.exit = 0 /\ o.status = "2xx"
\* A denial anywhere in the output, complete or not.
Denied(o) == o.prose = "denial" \/ o.status \in {"403", "404"}
\* A read whose connection was lost.
Transport(o) == o.exit = 1 /\ o.prose = "transport"
\* Server errors and lost connections: worth another attempt.
Transient(o) == o.exit = 1 /\ \/ o.status = "5xx" /\ o.prose # "denial"
                              \/ o.status = "2xx" /\ Transport(o)

\* The exit status of gh and the HTTP status must tell the same story; only an
\* explicit 404 proves that something is missing.  Content is parsed afterwards.
Response(o) == IF (o.exit = 0) # (o.status = "2xx") THEN "error"
               ELSE IF o.exit = 0 THEN IF o.framing = "cut" THEN "error" ELSE "content"
               ELSE IF o.status = "404" THEN "missing" ELSE "error"

\* What a read comes to: another attempt, or an end of it.
Verdicts == {"retry", "content", "missing", "error"}

CompletedRead(o, final) ==
    IF o.framing = "broken"
    THEN IF Transport(o) /\ ~Denied(o) /\ ~final THEN "retry" ELSE "error"
    ELSE IF Transient(o) /\ ~final THEN "retry" ELSE Response(o)

ReadVerdict(o, final) ==
    IF o.timeout THEN IF Denied(o) \/ final THEN "error" ELSE "retry"
    ELSE CompletedRead(o, final)

\* A write is made once.  It may have been committed unless it was denied.
CreateVerdict(o) ==
    LET lost == Transport(o) IN
    IF o.timeout THEN IF Denied(o) THEN "error" ELSE "ambiguous"
    ELSE IF o.framing = "broken" THEN IF lost /\ ~Denied(o) THEN "ambiguous" ELSE "error"
    ELSE IF Denied(o) THEN "error"
    ELSE IF (o.status = "5xx" /\ o.exit \in {0, 1}) \/ (o.status = "2xx" /\ lost) THEN "ambiguous"
    ELSE IF ~Succeeded(o) THEN "error"
    ELSE IF o.framing = "cut" THEN "ambiguous" ELSE "created"

\* What the server and the network can make of a call: the headers of an answer
\* tell the truth, and a successful one has a body.
ReadOf(exists) ==
    {o \in Outcomes : Answered(o) => o.status # (IF exists THEN "404" ELSE "2xx")}
CreationOf(committed) ==
    {o \in Outcomes : /\ Succeeded(o) => committed
                      /\ Answered(o) /\ o.status \in {"403", "404"} => ~committed}

\* What can become of a read, and of the creation.
ReadVerdicts ==
    [exists \in BOOLEAN |-> [final \in BOOLEAN |-> {ReadVerdict(o, final) : o \in ReadOf(exists)}]]
CreateVerdicts == [committed \in BOOLEAN |-> {CreateVerdict(o) : o \in CreationOf(committed)}]
=============================================================================
