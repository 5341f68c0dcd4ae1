---------------------------- MODULE ResultPolling -----------------------------
(***************************************************************************)
(* GET /api/v1/resolutions/{requestId} on top of the resolution queue: the *)
(* handler reads the request row and then, in a second statement with a    *)
(* snapshot of its own, the candidate rows.  Workers, purges and deletions *)
(* may come in between.                                                    *)
(***************************************************************************)
EXTENDS Resolution

CONSTANT Poller   \* HTTP requests in progress

VARIABLES
    reading,  \* per poller: the request row it has read, or None
    answer    \* per poller: its latest 200 response, or None

pollVars == <<reading, answer>>
allVars  == <<vars, pollVars>>

Row      == [client : Client, request : Request, status : Live]
Response == [client : Client, request : Request, status : Live,
             candidates : CandidateList]

PollTypeOK ==
    /\ reading \in [Poller -> Row \cup {None}]
    /\ answer \in [Poller -> Response \cup {None}]

PollInit ==
    /\ Init
    /\ reading = [p \in Poller |-> None]
    /\ answer = [p \in Poller |-> None]

OwnedBy(c, r) == Exists(r) /\ owner[r] \in {c} \X Key

\* A request that does not exist, or is another client's, is a 404, which
\* changes nothing; otherwise the handler keeps the row it has read.
ReadRequest(p, c, r) ==
    /\ reading[p] = None
    /\ OwnedBy(c, r)
    /\ reading' = [reading EXCEPT ![p] =
                      [client |-> c, request |-> r, status |-> status[r]]]
    /\ UNCHANGED <<vars, answer>>

\* The candidates are joined with the request row: none when it has gone.
ReadCandidates(p) ==
    /\ reading[p] # None
    /\ LET row  == reading[p]
           list == IF OwnedBy(row.client, row.request)
                     THEN candidates[row.request] ELSE <<>>
       IN  answer' = [answer EXCEPT ![p] =
                        [client |-> row.client, request |-> row.request,
                         status |-> row.status, candidates |-> list]]
    /\ reading' = [reading EXCEPT ![p] = None]
    /\ UNCHANGED vars

Poll(p) ==
    \/ \E c \in Client, r \in Request : ReadRequest(p, c, r)
    \/ ReadCandidates(p)

PollNext ==
    \/ Next /\ UNCHANGED pollVars
    \/ \E p \in Poller : Poll(p)

PollSpec == PollInit /\ [][PollNext]_allVars

-------------------------------------------------------------------------------

Responses == {answer[p] : p \in Poller} \ {None}

\* A response that says matched carries the candidates, unless the row went
\* between the two reads of GetResult; a response that says no_match or failed
\* carries none.
FinalResponseComplete ==
    \A a \in Responses :
        /\ a.status = "matched" /\ a.candidates = <<>> => status[a.request] = "deleted"
        /\ a.status \in {"no_match", "failed"} => a.candidates = <<>>

\* Two responses about one request never contradict each other once both are
\* final: same status, and the same candidates unless one of them found the row
\* already removed.  The two reads of one may enclose anything the other saw.
ResponsesAgree ==
    \A a, b \in Responses :
        a.request = b.request =>
            /\ a.status \in Terminal /\ b.status \in Terminal => a.status = b.status
            /\ a.candidates # <<>> /\ b.candidates # <<>> => a.candidates = b.candidates

===============================================================================
