----------------------------- MODULE PagedListing -----------------------------
(***************************************************************************)
(* Listing in pages: ListDocuments (gamesync_reads.go), QueryGameSessions  *)
(* and ListUserSessions (session_service.go).  Each sorts the names that   *)
(* match the request, returns the first ones after the page token and, if  *)
(* there are more, the last of these as the next token.  The server keeps  *)
(* nothing between two pages, and what matches changes meanwhile: documents*)
(* are written and deleted, rooms open, fill up, change hands and close.   *)
(***************************************************************************)
EXTENDS Integers, FiniteSets

CONSTANTS
  Name,         \* names in their order, which sort.Strings agrees with
  Client,       \* callers that list
  Size,         \* page sizes they ask for; negative ones are refused
  DefaultSize,  \* granted when none is asked for
  MaxSize       \* granted when more is asked for

ASSUME PagingAssumption ==
  /\ Name \subseteq Nat \ {0}
  /\ IsFiniteSet(Name)
  /\ Size \subseteq Nat
  /\ DefaultSize \in Nat \ {0}
  /\ MaxSize \in Nat \ {0}
  /\ DefaultSize <= MaxSize

NoToken == 0  \* the empty page token, before every name

VARIABLES
  matching,  \* the names that match the request now
  listing    \* each caller's: whether it goes on, with which token, and what
             \* it got; and, as history, the names that have matched all along
             \* and those that have matched at any time since it began

vars == <<matching, listing>>

Idle == [pc |-> "idle", size |-> 0, token |-> NoToken, got |-> {}, all |-> {}, any |-> {}]

Init ==
  /\ matching = {}
  /\ listing  = [c \in Client |-> Idle]
-----------------------------------------------------------------------------
Appear(n) ==
  /\ n \notin matching
  /\ matching' = matching \cup {n}
  /\ listing'  = [c \in Client |-> [listing[c] EXCEPT !.any = @ \cup {n}]]

Vanish(n) ==
  /\ n \in matching
  /\ matching' = matching \ {n}
  /\ listing'  = [c \in Client |-> [listing[c] EXCEPT !.all = @ \ {n}]]

\* Fault: what is asked for is granted.
GrantedAsAsked(size) == IF size = 0 THEN DefaultSize ELSE size

\* PageSize 0 stands for the default; more than the maximum is not granted.
Granted(size) == IF size = 0 THEN DefaultSize
                 ELSE IF size > MaxSize THEN MaxSize ELSE size

\* Fault: the name in the token is listed again.
FromToken(token) == {n \in matching : n >= token}

AfterToken(token) == {n \in matching : n > token}

\* The page is the first names of a set, as many as are granted.
IsPage(page, names, limit) ==
  /\ page \subseteq names
  /\ \A n \in page, m \in names \ page : n < m
  /\ IF page = names THEN Cardinality(page) <= limit ELSE Cardinality(page) = limit

\* Fault: the token is the first name that did not fit.
FirstOfRest(page, names) == {n \in names \ page : \A m \in names \ page : n <= m}

\* The token of a page: its last name, as the one member of a set.
LastOf(page, names) == {n \in page : \A m \in page : m <= n}

Begin(c, size) ==
  /\ listing[c].pc # "paging"
  /\ listing' = [listing EXCEPT ![c] =
       [pc |-> "paging", size |-> size, token |-> NoToken, got |-> {},
        all |-> matching, any |-> matching]]
  /\ UNCHANGED matching

\* The caller sends the token of the page before; the listing ends with a page
\* that has none.
FetchPage(c) ==
  /\ listing[c].pc = "paging"
  /\ LET names == AfterToken(listing[c].token)
     IN  \E page \in SUBSET names :
           /\ IsPage(page, names, Granted(listing[c].size))
           /\ \E token \in IF page = names THEN {NoToken} ELSE LastOf(page, names) :
                listing' = [listing EXCEPT
                  ![c].pc    = IF page = names THEN "done" ELSE "paging",
                  ![c].token = token,
                  ![c].got   = @ \cup page]
  /\ UNCHANGED matching

\* Each page is authorized anew: the caller's session may have expired or its
\* user left the room.  A mask that a document does not fit refuses a page too.
RefusePage(c) ==
  /\ listing[c].pc = "paging"
  /\ listing' = [listing EXCEPT ![c] = Idle]
  /\ UNCHANGED matching

Next ==
  \/ \E n \in Name : Appear(n) \/ Vanish(n)
  \/ \E c \in Client, size \in Size : Begin(c, size)
  \/ \E c \in Client : FetchPage(c) \/ RefusePage(c)

Spec == Init /\ [][Next]_vars

\* A caller that has begun fetches the pages that remain.
FairSpec == Spec /\ \A c \in Client : WF_vars(FetchPage(c))
-----------------------------------------------------------------------------
\* Types of the variables; while a listing goes on its token is a name it got.
TypeOK ==
  /\ matching \subseteq Name
  /\ listing \in [Client -> [pc    : {"idle", "paging", "done"},
                             size  : Size \cup {0},
                             token : Name \cup {NoToken},
                             got   : SUBSET Name,
                             all   : SUBSET Name,
                             any   : SUBSET Name]]
  /\ \A c \in Client : listing[c].token \in listing[c].got \cup {NoToken}

\* Whatever came and went between the pages, a listing that has ended has every
\* name that was there all the time, and none that was there at no time.
ListingExact ==
  \A c \in Client :
    /\ listing[c].got \subseteq listing[c].any
    /\ listing[c].pc = "done" => listing[c].all \subseteq listing[c].got

\* A page has nothing that an earlier page had, and no page is larger than the
\* maximum, so that neither a caller nor the server does the work of a page twice.
PagesDisjoint ==
  [][\A c \in Client : FetchPage(c) =>
       LET page == AfterToken(listing[c].token) \cap listing'[c].got
       IN  /\ page \cap listing[c].got = {}
           /\ Cardinality(listing'[c].got) <= Cardinality(listing[c].got) + MaxSize]_vars

\* However fast names come and go, a caller that goes on comes to the end or is
\* refused: each page has a name and tokens only grow.  This needs Name to be
\* finite; a server that found new names for ever could keep a caller paging.
ListingEnds ==
  \A c \in Client : listing[c].pc = "paging" ~> listing[c].pc # "paging"
=============================================================================
