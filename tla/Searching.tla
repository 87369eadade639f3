------------------------------ MODULE Searching ------------------------------
(***************************************************************************)
(* One target of a search, page after page (src/backend/src/voc_tools.rs,  *)
(* search_target, merge_page and fit_search; search.rs for the list of     *)
(* results nearest to the vector).  A first page mixes an exact name and   *)
(* the title matches with the vector results; later pages go on in the     *)
(* vector list by offset; a page too long for the result loses items from  *)
(* its end.  The list stays as it is from page to page, its results past   *)
(* the distance threshold are left out, and a count that fails (unread)    *)
(* too.                                                                    *)
(***************************************************************************)
EXTENDS Integers, Sequences, FiniteSets

CONSTANTS
    Near,          \* results within the threshold, nearest first
    Candidates,    \* results one search reads at most (MAX_CANDIDATES)
    TitleMax,      \* title matches of a first page (TITLE_MAX)
    PageMax        \* items a call asks for at most (SEARCH_MAX)

ASSUME SearchingAssumption == {Near, Candidates, TitleMax, PageMax} \subseteq Nat \ {0}

VARIABLES
    found,         \* what there is to find
    listing,       \* the page under way
    given,         \* the results the model was given
    dropped,       \* the exact names and title matches cut off, which a note counts
    goesOn         \* the offset it goes on at

searchingVars == <<found, listing, given, dropped, goesOn>>

Nowhere == -1

\* Results are their places in the list; those past it are found by their title only.
Hits == 1..Near + 1

Founds ==
    [byDocument : BOOLEAN, total : 0..Near, exact : {0} \cup Hits,
     titles : {t \in UNION {[1..n -> Hits] : n \in 0..TitleMax + 1} :
                  \A i, j \in DOMAIN t : t[i] = t[j] => i = j}]

\* An item of a page has its place in the page's order: the exact name, the titles, the
\* vector results, the titles held back.
Item(place, hit, by) == [place |-> place, hit |-> hit, by |-> by]
VectorItem(hit, by) == Item(Len(found.titles) + hit, hit, by)
LateItem(i) == Item(Len(found.titles) + Near + i, found.titles[i], "title")
Paged(item) == item.by = "vector"
HitsOf(items) == {item.hit : item \in items}
Smaller(m, n) == IF m < n THEN m ELSE n

NoListing == [items |-> {}, next |-> Nowhere, offset |-> Nowhere, short |-> FALSE, lost |-> {}]

SearchingInit == found \in Founds /\ listing = NoListing /\ given = {} /\ dropped = {} /\ goesOn = 0

-----------------------------------------------------------------------------
\* search::page: more may follow a list of documents that held one past the page, and
\* a list of rows that was as long as asked for.
Readable == Smaller(found.total, Candidates)
VectorPage(offset, limit) == offset + 1..Smaller(Readable, offset + limit)
More(offset, limit) ==
    IF found.byDocument THEN Readable > offset + limit ELSE Readable >= offset + limit
Capped(offset, limit) ==
    offset + limit >= Candidates /\ found.total > Readable /\ ~More(offset, limit)

TitleSlots(offset, limit, vectorRuns) ==
    IF offset > 0 THEN 0 ELSE Smaller(TitleMax, IF vectorRuns THEN limit - 1 ELSE limit)

Exact(offset) == IF offset = 0 THEN {found.exact} \ {0} ELSE {}

\* The first n title matches of those given, the exact name not one of them; none are
\* looked for when no place is left for any.
Titles == {i \in DOMAIN found.titles : found.titles[i] # found.exact}
FirstOf(titles, n) == {i \in titles : Cardinality({j \in titles : j < i}) < n}
TitleItems(offset, limit, vectorRuns) ==
    IF TitleSlots(offset, limit, vectorRuns) = 0 THEN {} ELSE FirstOf(Titles, TitleSlots(offset, limit, FALSE))
TitleHits(titles) == {found.titles[i] : i \in titles}

\* merge_page: the titles that have a place, then the vector results not shown yet,
\* then, when no page follows, the titles held back.
Unshown(offset, end, shown) == (offset + 1..end) \ shown
LookedTo(end, offset, limit, shown, room) ==
    LET vector == VectorPage(offset, limit)
        taken == Cardinality(Unshown(offset, end, shown)) IN
    /\ end \in vector \cup {offset} /\ taken <= room
    /\ end + 1 \in vector => end + 1 \notin shown /\ taken = room

NextPage(offset, limit, end) ==
    IF end + 1 \in VectorPage(offset, limit) THEN end
    ELSE IF More(offset, limit) THEN offset + limit ELSE Nowhere

\* The page once the vector results are looked at up to one of them.
MergePage(offset, limit, slotted, end) ==
    LET held == TitleItems(offset, limit, TRUE) \ slotted
        shown == TitleHits(slotted) \cup Exact(offset)
        next == NextPage(offset, limit, end)
        late == IF next = Nowhere THEN held ELSE {}
        near == Unshown(offset, end, shown)
        adding == {i \in late : found.titles[i] \notin near}
        added == FirstOf(adding, limit - Cardinality(slotted) - Cardinality(near)) IN
    [items |-> {Item(0, hit, "exact") : hit \in Exact(offset)}
               \cup {Item(i, found.titles[i], "title") : i \in slotted}
               \cup {VectorItem(hit, IF hit \in TitleHits(late) THEN "title" ELSE "vector") : hit \in near}
               \cup {LateItem(i) : i \in added},
     next |-> next, offset |-> offset, short |-> next = Nowhere /\ Capped(offset, limit), lost |-> {}]

SearchTarget ==
    /\ listing = NoListing /\ goesOn # Nowhere
    /\ \E limit \in 1..PageMax :
          LET slotted == FirstOf(Titles, TitleSlots(goesOn, limit, TRUE))
              shown == TitleHits(slotted) \cup Exact(goesOn) IN
          \E end \in goesOn..goesOn + Candidates :
             /\ LookedTo(end, goesOn, limit, shown, limit - Cardinality(slotted))
             /\ listing' = MergePage(goesOn, limit, slotted, end)
    /\ UNCHANGED <<found, given, dropped, goesOn>>

\* The vector search failed: the exact name and the titles, told so, and the model
\* may search again.
VectorFails ==
    /\ listing = NoListing /\ goesOn # Nowhere
    /\ \E limit \in 1..PageMax :
          given' = given \cup TitleHits(TitleItems(goesOn, limit, FALSE)) \cup Exact(goesOn)
    /\ UNCHANGED <<found, listing, dropped, goesOn>>

\* cut_item: the last vector result while another stays, then the last of the others;
\* never the last item.
CutAt(items) ==
    LET paged == {item \in items : Paged(item)}
        among == IF Cardinality(paged) > 1 THEN paged ELSE items \ paged IN
    {item \in among : \A other \in among : other.place <= item.place}

\* Mutant: the place of a cut result counted from the items kept.
GoesOnAtCount(listed, hit) == listed.offset + Cardinality(listed.items) - 1

\* Where a page goes on that lost a vector result: at its place in the list.
GoesOnAt(listed, hit) == hit - 1

CutItem ==
    /\ Cardinality(listing.items) > 1
    /\ \E item \in CutAt(listing.items) :
          listing' = IF Paged(item)
                     THEN [listing EXCEPT !.items = @ \ {item}, !.next = GoesOnAt(listing, item.hit)]
                     ELSE [listing EXCEPT !.items = @ \ {item}, !.lost = @ \cup {item.hit}]
    /\ UNCHANGED <<found, given, dropped, goesOn>>

DeliverListing ==
    /\ listing # NoListing
    /\ given' = given \cup HitsOf(listing.items)
    /\ dropped' = dropped \cup listing.lost
    /\ goesOn' = listing.next
    /\ listing' = NoListing
    /\ found' = IF listing.short THEN [found EXCEPT !.total = Readable] ELSE found

SearchingNext == SearchTarget \/ VectorFails \/ CutItem \/ DeliverListing

SearchingSpec == SearchingInit /\ [][SearchingNext]_searchingVars

-----------------------------------------------------------------------------
\* A page goes on past this call (voc_tools.rs title_slots), and the pages pass over no
\* result: whatever is before the place they go on at, or all there is when they end
\* and do not say the list is cut short, was given to the model, except for an exact
\* name or a title match that was cut off, which a note counts.
NoResultIsPassed ==
    /\ listing # NoListing /\ listing.next # Nowhere => listing.next > listing.offset
    /\ 1..(IF goesOn = Nowhere THEN found.total ELSE Smaller(goesOn, found.total)) \subseteq given \cup dropped

=============================================================================
