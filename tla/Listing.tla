-------------------------------- MODULE Listing --------------------------------
(***************************************************************************)
(* The listing loops: List, ListSnapshots, ListSessionSnapshots,           *)
(* ListDanglingSnapshots, ListVolumes, ListTemplates, ListPreviewURLs and  *)
(* ListEgressPolicies ask for one page after the other until there is no   *)
(* next page token, while resources come and go between the pages.         *)
(***************************************************************************)
EXTENDS Integers, FiniteSetsExt

CONSTANTS
  Items,    \* the resources, numbered in the order they are listed in
  PageSize, \* automaticPageSize
  MaxChurn  \* resources that come or go during the listing (bound)

ASSUME ListingAssumption ==
  /\ Items \subseteq Nat \ {0} /\ IsFiniteSet(Items)
  /\ PageSize \in Nat \ {0} /\ MaxChurn \in Nat

VARIABLES
  items,   \* the resources there are
  steady,  \* those there have been since the listing began
  tagged,  \* those that have the tag of the filter
  method,  \* the listing method
  wants,   \* it was given WithTagFilter
  token,   \* pageToken: the last item of the page before, 0: none
  listed,  \* how often each resource has been collected
  churn,
  listing  \* "idle", "running", or how it ended: "ok", "stalled" or "failed"

listVars == <<items, steady, tagged, method, wants, token, listed, churn, listing>>

NothingListed == [i \in Items |-> 0]

ListInit ==
  /\ items = {} /\ steady = {} /\ tagged = {}
  /\ method = "List" /\ wants = FALSE /\ token = 0 /\ listed = NothingListed /\ churn = 0 /\ listing = "idle"

\* The methods that take list options, and those that send their tags: the
\* other two build a request without them.  The methods that take no tags
\* (ListSessionSnapshots, ListDanglingSnapshots, ListPreviewURLs,
\* ListEgressPolicies) page like ListVolumes without a filter.
Filtering == {"List", "ListTemplates"}
Dropping == {"ListSnapshots", "ListVolumes"}

filter == wants /\ method \in Filtering

\* The listing begins, with the resources there are then.
ListBegin(m, filtered) ==
  /\ listing = "idle"
  /\ listing' = "running"
  /\ method' = m /\ wants' = filtered
  /\ items' \in SUBSET Items /\ steady' = items' /\ tagged' \in SUBSET Items
  /\ UNCHANGED <<token, listed, churn>>

\* The service: a page is the first items after the token, and its last item is
\* the next token if there are more.  A faulty service repeats the token.
Matching == {i \in items : i > token /\ (filter => i \in tagged)}
Page == {i \in Matching : Cardinality({j \in Matching : j < i}) < PageSize}
NextToken == IF Cardinality(Matching) > PageSize THEN Max(Page) ELSE 0

\* Variant: the token is taken as it comes.
StalledNever(next) == FALSE

\* advancePageToken: ErrPaginationStalled
Stalled(next) == next # 0 /\ next = token

ListPage ==
  /\ listing = "running"
  /\ \E next \in {NextToken} \cup ({token} \ {0}) :
       /\ listed' = IF Stalled(next) THEN NothingListed
                    ELSE [i \in Items |-> IF i \in Page THEN listed[i] + 1 ELSE listed[i]]
       /\ token' = IF Stalled(next) THEN token ELSE next
       /\ listing' = IF Stalled(next) THEN "stalled" ELSE IF next = 0 THEN "ok" ELSE "running"
  /\ UNCHANGED <<items, steady, tagged, method, wants, churn>>

ListFails ==
  /\ listing = "running"
  /\ listing' = "failed" /\ listed' = NothingListed
  /\ UNCHANGED <<items, steady, tagged, method, wants, token, churn>>

Churn ==
  /\ listing = "running" /\ churn < MaxChurn
  /\ \E i \in Items :
       /\ items' = (items \ {i}) \cup ({i} \ items)
       /\ steady' = steady \ {i}
  /\ churn' = churn + 1
  /\ UNCHANGED <<tagged, method, wants, token, listed, listing>>

ListNext == ListPage \/ ListFails \/ Churn

\* A list that is returned has every matching resource that was there all the
\* time, none twice, and nothing the filter excludes, whatever came and went
\* between its pages; a service that repeats a token ends it with an error.
\* The exception: ListSnapshots and ListVolumes list what the filter excludes
\* too, since they drop it, although "WithTagFilter sets AND-tag filtering on
\* list requests" (options.go:952).
ListExact ==
  listing = "ok" =>
    \A i \in Items :
      /\ i \in steady /\ (wants => i \in tagged) => listed[i] = 1
      /\ listed[i] <= 1
      /\ wants /\ listed[i] > 0 => i \in tagged \/ method \in Dropping
================================================================================
