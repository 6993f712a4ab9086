-------------------------- MODULE PagedListingProofs --------------------------
(***************************************************************************)
(* Theorems about PagedListing for every set of names, however many        *)
(* callers and whatever page sizes are granted.                            *)
(***************************************************************************)
EXTENDS PagedListing, FiniteSetTheorems, TLAPS

\* What a listing that goes on knows: it has every name up to its token that
\* has matched all along, nothing beyond the token, and what matches now has
\* matched at some time.
ListingInv ==
  \A c \in Client :
    /\ listing[c].got \subseteq listing[c].any
    /\ listing[c].pc = "paging" =>
         /\ matching \subseteq listing[c].any
         /\ listing[c].all \subseteq matching
         /\ \A n \in listing[c].got : n <= listing[c].token
         /\ \A n \in listing[c].all : n <= listing[c].token => n \in listing[c].got
    /\ listing[c].pc = "done" => listing[c].all \subseteq listing[c].got

\* A page size that is granted is positive and not above the maximum, so that
\* the first page that leaves names out has a name.
LEMMA GrantedBounds ==
  ASSUME NEW size \in Size \cup {0}
  PROVE  Granted(size) \in 1..MaxSize
  BY PagingAssumption DEF Granted

\* The values of a listing, field by field.
LEMMA ListingFields ==
  ASSUME TypeOK, NEW c \in Client
  PROVE  /\ DOMAIN listing = Client
         /\ listing[c] = [pc |-> listing[c].pc, size |-> listing[c].size,
                         token |-> listing[c].token, got |-> listing[c].got,
                         all |-> listing[c].all, any |-> listing[c].any]
         /\ listing[c].size \in Size \cup {0}
         /\ listing[c].token \in Nat
         /\ listing[c].got \subseteq Name
         /\ listing[c].all \subseteq Name
         /\ listing[c].any \subseteq Name
         /\ Name \subseteq Nat \ {0}
         /\ matching \subseteq Name
<1>1. listing[c] \in [pc    : {"idle", "paging", "done"},
                     size  : Size \cup {0},
                     token : Name \cup {NoToken},
                     got   : SUBSET Name,
                     all   : SUBSET Name,
                     any   : SUBSET Name]
  BY DEF TypeOK
<1>2. /\ listing[c].size \in Size \cup {0}
      /\ listing[c].token \in Name \cup {NoToken}
      /\ listing[c].got \subseteq Name
      /\ listing[c].all \subseteq Name
      /\ listing[c].any \subseteq Name
  BY <1>1
<1>3. listing[c] = [pc |-> listing[c].pc, size |-> listing[c].size,
                    token |-> listing[c].token, got |-> listing[c].got,
                    all |-> listing[c].all, any |-> listing[c].any]
  BY <1>1
<1>4. /\ matching \subseteq Name
      /\ DOMAIN listing = Client
  BY DEF TypeOK
<1>5. Name \subseteq Nat \ {0}
  BY PagingAssumption
<1>6. listing[c].token \in Nat
  <2>1. \A t \in Name \cup {0} : t \in Nat
    BY <1>5
  <2>2. listing[c].token \in Name \cup {0}
    BY <1>2 DEF NoToken
  <2> QED
    BY <2>1, <2>2
<1> QED
  BY <1>2, <1>3, <1>4, <1>5, <1>6

\* The types are preserved.
LEMMA TypesKept ==
  ASSUME TypeOK, [Next]_vars
  PROVE  TypeOK'
<1>1. ASSUME NEW n \in Name, Appear(n)
      PROVE  TypeOK'
  BY <1>1 DEF TypeOK, Appear
<1>2. ASSUME NEW n \in Name, Vanish(n)
      PROVE  TypeOK'
  BY <1>2 DEF TypeOK, Vanish
<1>3. ASSUME NEW c \in Client, NEW size \in Size, Begin(c, size)
      PROVE  TypeOK'
  BY <1>3 DEF TypeOK, Begin
<1>4. ASSUME NEW c \in Client, FetchPage(c)
      PROVE  TypeOK'
  <2>1. PICK page \in SUBSET AfterToken(listing[c].token) :
          \E token \in IF page = AfterToken(listing[c].token) THEN {NoToken}
                       ELSE LastOf(page, AfterToken(listing[c].token)) :
            listing' = [listing EXCEPT
              ![c].pc    = IF page = AfterToken(listing[c].token) THEN "done" ELSE "paging",
              ![c].token = token,
              ![c].got   = @ \cup page]
    BY <1>4 DEF FetchPage
  <2>2. PICK token \in page \cup {NoToken}, pc \in {"done", "paging"} :
          listing' = [listing EXCEPT ![c].pc = pc, ![c].token = token, ![c].got = @ \cup page]
    BY <2>1 DEF LastOf
  <2>3. page \subseteq Name
    BY DEF AfterToken, TypeOK
  <2>4. matching' = matching
    BY <1>4 DEF FetchPage
  <2>5. \A d \in Client \ {c} : listing'[d] = listing[d]
    BY <2>2 DEF TypeOK
  <2>6. listing'[c] = [pc |-> pc, size |-> listing[c].size, token |-> token,
                       got |-> listing[c].got \cup page,
                       all |-> listing[c].all, any |-> listing[c].any]
    <3>1. listing'[c] = [listing[c] EXCEPT !.pc = pc, !.token = token, !.got = @ \cup page]
      BY <2>2, ListingFields
    <3>2. listing[c] = [pc |-> listing[c].pc, size |-> listing[c].size,
                        token |-> listing[c].token, got |-> listing[c].got,
                        all |-> listing[c].all, any |-> listing[c].any]
      BY ListingFields
    <3> QED
      BY <3>1, <3>2
  <2>7. listing' = [d \in Client |-> listing'[d]]
    BY <2>2, ListingFields
  <2>8. token \in Name \cup {NoToken}
    BY <2>3
  <2> QED
    BY <2>3, <2>4, <2>5, <2>6, <2>7, <2>8, ListingFields DEF TypeOK
<1>5. ASSUME NEW c \in Client, RefusePage(c)
      PROVE  TypeOK'
  BY <1>5 DEF TypeOK, RefusePage, Idle
<1>6. CASE UNCHANGED vars
  BY <1>6 DEF TypeOK, vars
<1> QED
  BY <1>1, <1>2, <1>3, <1>4, <1>5, <1>6 DEF Next

\* What matches comes and goes without harm to the listings that go on.
LEMMA ListingSurvivesChange ==
  ASSUME TypeOK, ListingInv,
         NEW n \in Name,
         Appear(n) \/ Vanish(n)
  PROVE  ListingInv'
<1>1. CASE Appear(n)
  BY <1>1 DEF Appear, ListingInv, TypeOK
<1>2. CASE Vanish(n)
  BY <1>2 DEF Vanish, ListingInv, TypeOK
<1> QED
  BY <1>1, <1>2

\* A page brings the listing forward: all that matched up to the new token is
\* in it, and a page without a token has the rest.
LEMMA ListingSurvivesPage ==
  ASSUME TypeOK, ListingInv,
         NEW c \in Client,
         FetchPage(c)
  PROVE  ListingInv'
<1> DEFINE names == AfterToken(listing[c].token)
<1>1. PICK page \in SUBSET names :
        /\ \A n \in page, m \in names \ page : n < m
        /\ \E token \in IF page = names THEN {NoToken} ELSE LastOf(page, names) :
             listing' = [listing EXCEPT
               ![c].pc    = IF page = names THEN "done" ELSE "paging",
               ![c].token = token,
               ![c].got   = @ \cup page]
  BY DEF FetchPage, IsPage
<1>2. /\ listing[c].pc = "paging"
      /\ matching' = matching
  BY DEF FetchPage
<1>3. PICK token \in page \cup {NoToken} :
        /\ page = names => token = NoToken
        /\ page # names => token \in page /\ \A m \in page : m <= token
        /\ listing' = [listing EXCEPT
             ![c].pc    = IF page = names THEN "done" ELSE "paging",
             ![c].token = token,
             ![c].got   = @ \cup page]
  BY <1>1 DEF LastOf
<1>4. /\ listing'[c].pc = IF page = names THEN "done" ELSE "paging"
      /\ listing'[c].token = token
      /\ listing'[c].got = listing[c].got \cup page
      /\ listing'[c].all = listing[c].all
      /\ listing'[c].any = listing[c].any
      /\ \A d \in Client \ {c} : listing'[d] = listing[d]
  BY <1>3 DEF TypeOK
<1>5. /\ page \subseteq matching
      /\ names = {n \in matching : n > listing[c].token}
      /\ matching \subseteq Nat \ {0}
      /\ listing[c].got \subseteq Nat
      /\ listing[c].token \in Nat
  BY ListingFields DEF AfterToken
<1>6. listing'[c].got \subseteq listing'[c].any
  BY <1>2, <1>4, <1>5 DEF ListingInv
<1> HIDE DEF names
<1>7. /\ \A n \in listing[c].got : n <= listing[c].token
      /\ \A n \in listing[c].all : n <= listing[c].token => n \in listing[c].got
      /\ \A n \in listing[c].all : n \in matching /\ n \in Nat
  BY <1>2, <1>5 DEF ListingInv
<1>8. \A n \in listing[c].all : n \in listing[c].got \/ n \in names
  BY <1>5, <1>7
<1>9. CASE page = names
  <2>1. \A n \in listing[c].all : n \in listing[c].got \cup page
    BY <1>9, <1>8
  <2> QED
    BY <1>2, <1>4, <1>6, <1>9, <2>1 DEF ListingInv
<1>10. CASE page # names
  <2>1. token \in Nat /\ token > listing[c].token
    BY <1>3, <1>5, <1>10
  <2>2. \A n \in listing[c].got \cup page : n <= token
    <3>1. \A n \in listing[c].got : n \in Nat
      BY <1>5
    <3>2. \A n \in listing[c].got : n <= token
      BY <1>5, <1>7, <2>1, <3>1
    <3> QED
      BY <1>3, <1>10, <3>2
  <2>3. ASSUME NEW n \in listing[c].all, n <= token
        PROVE  n \in listing[c].got \cup page
    \* A name that was left out would be greater than the token.
    <3>1. ASSUME n \in names, n \notin page
          PROVE  FALSE
      <4>1. token < n
        BY <1>1, <1>3, <1>10, <3>1
      <4> QED
        BY <1>7, <2>1, <2>3, <4>1
    <3> QED
      BY <1>8, <3>1
  <2> QED
    BY <1>2, <1>4, <1>6, <1>10, <2>2, <2>3 DEF ListingInv
<1> QED
  BY <1>9, <1>10

\* Every step keeps what the listings know.
LEMMA ListingInvKept ==
  ASSUME TypeOK, ListingInv, [Next]_vars
  PROVE  ListingInv'
<1>1. ASSUME NEW c \in Client, NEW size \in Size, Begin(c, size)
      PROVE  ListingInv'
  BY <1>1, PagingAssumption DEF Begin, ListingInv, TypeOK, NoToken
<1>2. ASSUME NEW c \in Client, RefusePage(c)
      PROVE  ListingInv'
  BY <1>2 DEF RefusePage, Idle, ListingInv, TypeOK
<1>3. CASE UNCHANGED vars
  BY <1>3 DEF ListingInv, vars
<1> QED
  BY <1>1, <1>2, <1>3, ListingSurvivesChange, ListingSurvivesPage DEF Next

\* What the listings know holds at all times.
LEMMA ListingInvAlways == Spec => [](TypeOK /\ ListingInv)
<1>1. Init => TypeOK /\ ListingInv
  BY PagingAssumption DEF Init, Idle, TypeOK, ListingInv, NoToken
<1>2. TypeOK /\ ListingInv /\ [Next]_vars => (TypeOK /\ ListingInv)'
  BY TypesKept, ListingInvKept
<1> QED
  BY <1>1, <1>2, PTL DEF Spec

\* Types of the variables, and a listing's token is a name it got (a page of
\* ListDocuments, QueryGameSessions and ListUserSessions).
THEOREM ListingTypes == Spec => []TypeOK
  BY ListingInvAlways, PTL

\* A listing that ends has every name that was there all the time and none that
\* never was, however many names there are and whatever sizes are asked for.
THEOREM ListingsExact == Spec => []ListingExact
<1>1. ListingInv => ListingExact
  BY DEF ListingInv, ListingExact
<1> QED
  BY <1>1, ListingInvAlways, PTL

\* No page repeats a name, and none is larger than the maximum.
THEOREM PagesAreDisjoint == Spec => PagesDisjoint
<1> DEFINE Fetched(c) ==
      LET page == AfterToken(listing[c].token) \cap listing'[c].got
      IN  /\ page \cap listing[c].got = {}
          /\ Cardinality(listing'[c].got) <= Cardinality(listing[c].got) + MaxSize
<1>1. ASSUME TypeOK, ListingInv, NEW c \in Client, FetchPage(c)
      PROVE  Fetched(c)
  <2>1. PICK page \in SUBSET AfterToken(listing[c].token) :
          /\ IsPage(page, AfterToken(listing[c].token), Granted(listing[c].size))
          /\ listing'[c].got = listing[c].got \cup page
    BY <1>1 DEF FetchPage, TypeOK
  <2>2. /\ IsFiniteSet(page)
        /\ IsFiniteSet(listing[c].got)
    <3>1. page \subseteq Name /\ listing[c].got \subseteq Name
      BY <1>1 DEF TypeOK, AfterToken
    <3> QED
      BY <3>1, FS_Subset, PagingAssumption
  <2>3. /\ Cardinality(page) \in Nat
        /\ Cardinality(listing[c].got) \in Nat
        /\ Cardinality(page \cap listing[c].got) \in Nat
        /\ Cardinality(listing[c].got \cap page) \in Nat
        /\ Cardinality(listing'[c].got)
             = Cardinality(listing[c].got) + Cardinality(page) - Cardinality(listing[c].got \cap page)
    BY <2>1, <2>2, FS_Union, FS_Intersection, FS_CardinalityType
  <2>4. Cardinality(page) <= MaxSize
    <3>1. Granted(listing[c].size) \in 1..MaxSize
      BY <1>1, GrantedBounds DEF TypeOK
    <3> QED
      BY <2>1, <2>3, <3>1, PagingAssumption DEF IsPage
  <2>5. AfterToken(listing[c].token) \cap listing[c].got = {}
    <3>1. \A n \in listing[c].got : n <= listing[c].token
      BY <1>1 DEF FetchPage, ListingInv
    <3>2. listing[c].got \subseteq Nat /\ listing[c].token \in Nat
      BY <1>1, ListingFields
    <3> QED
      BY <3>1, <3>2 DEF AfterToken
  <2> QED
    BY <2>3, <2>4, <2>5, PagingAssumption
<1>2. TypeOK /\ ListingInv /\ [Next]_vars => [\A c \in Client : FetchPage(c) => Fetched(c)]_vars
  BY <1>1
<1> QED
  BY <1>2, ListingInvAlways, PTL DEF Spec, PagesDisjoint
=============================================================================
