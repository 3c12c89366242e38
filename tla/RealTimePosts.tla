----------------------------- MODULE RealTimePosts -----------------------------
(***************************************************************************)
(* The processing of messages, together with the collection of posts that  *)
(* it reads and fills: RealTime has a set of posts, and these properties   *)
(* show that the collection of the code does what is done to the set.      *)
(***************************************************************************)
EXTENDS RealTime, PostIndex

Collection == Sorted(posts)

\* A post that is cached is found by the binary search, one that is not is not, in every
\* state of the cache; and the search is right for all collections, also those with gaps,
\* in which it may throw, but for no less than four posts (postsManager.ts).
SearchFinds ==
    /\ SearchesAreRight
    /\ \A n \in 1..MaxPosts : Caches(Collection, n) = (n \in posts)

\* A post is put where it belongs, whatever order its message and the initialisation of the
\* stream come in, unless the search throws; for all collections a late post keeps the order,
\* with none twice, unless it is older than all of them, or the search throws (postsManager.ts).
InsertsInOrder ==
    /\ InsertsAreRight
    /\ \A m \in Arrived :
        m.type = "post" /\ init = "yes" /\ st[m].pc \in {"ready", "init"}
            => \/ UpdateOrInsert(Collection, m.n) = Sorted(posts \cup {m.n})
               \/ Search(Collection, m.n) = Throws

\* The page a computation cuts out of the cache has the cached posts from the first unread one on, all of
\* them and no others, also while a late post is still missing; and pages read backwards,
\* fetched when they are not cached, have nothing missing and nothing twice (unreads.ts,
\* postsManager.ts).
PagesAreWhole ==
    /\ PagesAreRight
    /\ \A c \in Computes :
        comp[c].pc = "posts" /\ init = "yes" /\ FirstUnread(comp[c].from) \in posts
            => LET first == FirstUnread(comp[c].from)
               IN  Between(Collection, first, Last(Collection)) = Sorted({n \in posts : n >= first})
================================================================================
