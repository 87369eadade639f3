----------------------------- MODULE Catalogue ------------------------------
(***************************************************************************)
(* The tools of one MCP server as the model sees them (src/backend/src/    *)
(* mcp/mod.rs and mcp/schema.rs): a listing read page by page while the    *)
(* server changes its tools, the model's name of each, the snapshot each   *)
(* question takes, and the definitions a model endpoint refuses.           *)
(*                                                                         *)
(* All tools are ones whose names clean alike (`a_b`, `a.b`, `A_b`),       *)
(* numbered in the order exposed_names gives new ones their names: others  *)
(* never meet.  A definition is its version: the definition sent, with the *)
(* names of the other tools put in its description, so that a change made  *)
(* only by their names counts as one (it is a ServeOther, which may come   *)
(* at any time).  Left out: the names past MAX_NAME, the limits of a       *)
(* listing and of a request, and what a call does (McpCalls).              *)
(***************************************************************************)
EXTENDS Integers

CONSTANTS
    Alike,          \* how many tools clean alike
    Endpoints,      \* model endpoints
    Questions,
    NoEndpoint,
    MaxVersion,     \* bound: versions of a definition
    MaxListings     \* bound: listings read to their end

Tools == 1..Alike
Plain == 0          \* `server__a_b`; the name with a tool's own hash is the tool's number
Absent == 0         \* not served; versions are 1..MaxVersion

ASSUME CatalogueAssumption ==
    Alike \in Nat /\ MaxVersion \in Nat /\ MaxListings \in Nat /\ NoEndpoint \notin Endpoints

VARIABLES
    served,         \* the version of each tool the server has
    listing,        \* whether the supervisor reads the list
    got,            \* the tools of the pages read
    listed,         \* State::tools; `made` is the listing each was made in
    refused,        \* RemoteTool::refused
    ready,
    listings,       \* listings read, for the bound
    allowed,        \* the allow-list: every tool, or the plain name's
    offered         \* the snapshot of each question, and its endpoint

serverSide == <<served, listing, got, ready, listings>>
catalogueVars == <<serverSide, listed, refused, allowed, offered>>

NoQuestion == [endpoint |-> NoEndpoint, tools |-> {}]

CatalogueInit ==
    /\ served \in [Tools -> {Absent, 1}]
    /\ listing = FALSE /\ got = <<>> /\ ready = FALSE /\ listings = 0
    /\ listed = {} /\ refused = <<>>
    /\ allowed \in {{Plain}, {Plain} \cup Tools}
    /\ offered = [q \in Questions |-> NoQuestion]

-----------------------------------------------------------------------------
(* The listing. *)

ServeOther(t, version) ==
    /\ version # served[t]
    /\ served' = [served EXCEPT ![t] = version]
    /\ UNCHANGED <<listing, got, ready, listings, listed, refused, allowed, offered>>

\* A connection made, or the server's notice of a change.
BeginList ==
    /\ ~listing /\ listings < MaxListings
    /\ listing' = TRUE /\ got' = <<>>
    /\ UNCHANGED <<served, ready, listings, listed, refused, allowed, offered>>

\* A tool that comes twice is the first one.
ReadPage(page) ==
    /\ listing
    /\ got' = [t \in DOMAIN got \cup page |-> IF t \in DOMAIN got THEN got[t] ELSE served[t]]
    /\ UNCHANGED <<served, listing, ready, listings, listed, refused, allowed, offered>>

\* Mutant: the names of a listing made without the ones before it.
ExposedAnew(tools, previous) ==
    [t \in tools |-> IF \A u \in tools : t <= u THEN Plain ELSE t]

\* `exposed_names`: a tool keeps the name it had; of the others the first takes the
\* plain name if no tool has it.
Exposed(tools, previous) ==
    LET kept == tools \cap DOMAIN previous
        plainTaken == \E t \in kept : previous[t] = Plain
        first(t) == \A u \in tools \ kept : t <= u
    IN  [t \in tools |->
            IF t \in kept THEN previous[t]
            ELSE IF first(t) /\ ~plainTaken THEN Plain ELSE t]

Known == [t \in {a.tool : a \in listed} |-> (CHOOSE a \in listed : a.tool = t).name]

\* A tool listed again with its definition as it was sent stays the one it was.
ListedAs(t, names, versions) ==
    LET same == {a \in listed : a.tool = t /\ a.name = names[t] /\ a.version = versions[t]}
    IN  IF same # {} THEN CHOOSE a \in same : TRUE
        ELSE [tool |-> t, name |-> names[t], version |-> versions[t], made |-> listings]

SetTools(versions) ==
    LET names == Exposed(DOMAIN versions, Known)
    IN  /\ listed' = {ListedAs(t, names, versions) : t \in DOMAIN versions}
        /\ refused' = [a \in listed' |-> IF a \in listed THEN refused[a] ELSE NoEndpoint]

ListEnds ==
    /\ listing
    /\ SetTools(got)
    /\ listing' = FALSE /\ got' = <<>> /\ ready' = TRUE /\ listings' = listings + 1
    /\ UNCHANGED <<served, allowed, offered>>

\* The list fails or takes too long; the tools stay as they were.
ListFails ==
    /\ listing /\ listing' = FALSE /\ got' = <<>>
    /\ UNCHANGED <<served, ready, listings, listed, refused, allowed, offered>>

\* The connection ends: its tools are kept for the names of the next.
Disconnect ==
    /\ ready \/ listing
    /\ listing' = FALSE /\ got' = <<>> /\ ready' = FALSE
    /\ UNCHANGED <<served, listings, listed, refused, allowed, offered>>

\* `restart`: what a model refused is offered again.
ForgetRefusals ==
    /\ refused' = [a \in listed |-> NoEndpoint]
    /\ UNCHANGED <<serverSide, listed, allowed, offered>>

-----------------------------------------------------------------------------
(* The questions. *)

Allows(a) == a.tool \in allowed \/ a.name \in allowed

Snapshot(endpoint) == {a \in listed : Allows(a) /\ refused[a] # endpoint}

\* A question takes the tools offered now, and keeps them to its end.
TakeSnapshot(q, endpoint) ==
    /\ offered[q] = NoQuestion
    /\ offered' = [offered EXCEPT ![q] =
           [endpoint |-> endpoint, tools |-> IF ready THEN Snapshot(endpoint) ELSE {}]]
    /\ UNCHANGED <<serverSide, listed, refused, allowed>>

\* The endpoint refuses a request and names these tools: the question goes on without
\* them, and the tools, if they are listed still, are left out of later questions.
RefuseTools(q, named) ==
    /\ named # {}
    /\ refused' = [a \in listed |-> IF a \in named THEN offered[q].endpoint ELSE refused[a]]
    /\ offered' = [offered EXCEPT ![q].tools = @ \ named]
    /\ UNCHANGED <<serverSide, listed, allowed>>

QuestionEnds(q) ==
    /\ offered[q] # NoQuestion
    /\ offered' = [offered EXCEPT ![q] = NoQuestion]
    /\ UNCHANGED <<serverSide, listed, refused, allowed>>

CatalogueNext ==
    \/ \E t \in Tools, version \in Absent..MaxVersion : ServeOther(t, version)
    \/ BeginList \/ ListEnds \/ ListFails \/ Disconnect \/ ForgetRefusals
    \/ \E page \in SUBSET {t \in Tools : served[t] # Absent} : ReadPage(page)
    \/ \E q \in Questions :
           \/ \E endpoint \in Endpoints : TakeSnapshot(q, endpoint)
           \/ \E named \in SUBSET offered[q].tools : RefuseTools(q, named)
           \/ QuestionEnds(q)

CatalogueSpec == CatalogueInit /\ [][CatalogueNext]_catalogueVars

-----------------------------------------------------------------------------
(* Properties. *)

\* A tool listed again keeps the name the model knows it by, whatever else is listed
\* with it and in whatever order, or the conversation's calls and the allow-list would
\* mean another tool; and sent unchanged it keeps what a model endpoint refused of it,
\* or each listing would cost a refused request (exposed_names, set_tools).
ListedAgainStays ==
    [][listed' # listed =>
        \A a \in listed, b \in listed' : a.tool = b.tool =>
            /\ b.name = a.name
            /\ b.version = a.version => refused'[b] = refused[a]]_<<listed, refused>>

=============================================================================
