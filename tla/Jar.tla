-------------------------------- MODULE Jar --------------------------------
(***************************************************************************)
(* neolib::basic_jar: items in a dense vector, found by cookies that are   *)
(* used again.  insert() is two critical sections, for the cookie and for  *)
(* the item, and a third when the item cannot be added.                    *)
(***************************************************************************)
EXTENDS Integers, Sequences, SequencesExt, FiniteSets

CONSTANTS Threads, Items,
          Invalid,    \* INVALID_COOKIE, the largest value of a cookie
          MaxThrows   \* bound: items whose construction throws

JarAssumption ==
  /\ IsFiniteSet(Threads) /\ 0 \notin Items /\ Invalid \in Nat \ {0} /\ MaxThrows \in Nat

Cookies == 0 .. Invalid - 1
None == -1

VARIABLES
  next,      \* iNextAvailableCookie
  free,      \* iFreeCookies
  allocated, \* iAllocatedCookies
  items,     \* iItems
  reverse,   \* iReverseIndices; 0: INVALID_REVERSE_INDEX, or none yet
  pending,   \* the cookie each thread has got for its item, or gives back
  throws,
  given,     \* history: the item added under each cookie; 0: none
  astray     \* history: cookies ran out, or clear() met an insert()

jar == <<allocated, items, reverse, given>>
vars == <<next, free, jar, pending, throws, astray>>

Idle == <<"idle", None>>

TypeOK ==
  /\ next \in 0 .. Invalid /\ free \in Seq(Cookies)
  /\ allocated \in Seq(Cookies) /\ items \in Seq(Items) /\ Len(items) = Len(allocated)
  /\ reverse \in [Cookies -> 0 .. Len(items)]
  /\ pending \in [Threads -> {"idle", "add", "return"} \X (Cookies \cup {None})]
  /\ throws \in 0 .. MaxThrows
  /\ given \in [Cookies -> Items \cup {0}] /\ astray \in BOOLEAN

Become(t, what, c) == pending' = [pending EXCEPT ![t] = <<what, c>>]

----------------------------------------------------------------------------
\* next_cookie()
TakeFree(t) ==
  /\ free # <<>> /\ free' = Front(free)
  /\ Become(t, "add", Last(free)) /\ UNCHANGED <<next, astray>>
TakeNext(t) ==
  /\ free = <<>> /\ next' = (next + 1) % (Invalid + 1)
  /\ astray' = (astray \/ next' = Invalid)
  /\ IF next' = Invalid THEN UNCHANGED pending ELSE Become(t, "add", next')
  /\ UNCHANGED free

NextCookie(t) ==
  /\ pending[t] = Idle /\ (TakeFree(t) \/ TakeNext(t))
  /\ UNCHANGED <<jar, throws>>

\* add(), which throws cookie_already_added, or what the item throws
Add(t, x) ==
  LET c == pending[t][2] IN
  /\ pending[t][1] = "add" /\ reverse[c] = 0
  /\ items' = Append(items, x) /\ allocated' = Append(allocated, c)
  /\ reverse' = [reverse EXCEPT ![c] = Len(items) + 1]
  /\ given' = [given EXCEPT ![c] = x] /\ pending' = [pending EXCEPT ![t] = Idle]
  /\ UNCHANGED <<next, free, throws, astray>>

AddTwice(t) ==
  LET c == pending[t][2] IN
  /\ pending[t][1] = "add" /\ reverse[c] # 0 /\ Become(t, "return", c)
  /\ UNCHANGED <<next, free, jar, throws, astray>>

AddThrows(t) ==
  LET c == pending[t][2] IN
  /\ pending[t][1] = "add" /\ reverse[c] = 0 /\ throws < MaxThrows
  /\ throws' = throws + 1 /\ Become(t, "return", c)
  /\ UNCHANGED <<next, free, jar, astray>>

\* Bound: in a jar that went astray the free list may grow for ever.
Room == Len(free) <= Invalid

\* Mutant: the cookie of an item that threw is dropped.
Returned_Not(c) == free

Returned(c) == Append(free, c)

\* insert()'s catch: return_cookie()
Return(t) ==
  /\ pending[t][1] = "return" /\ Room /\ free' = Returned(pending[t][2])
  /\ pending' = [pending EXCEPT ![t] = Idle]
  /\ UNCHANGED <<next, jar, throws, astray>>

\* swap with back(), if it is not the last, and pop_back()
SwapPop(s, i) == [j \in 1 .. Len(s) - 1 |-> IF j = i THEN s[Len(s)] ELSE s[j]]

Relinked(c) == [reverse EXCEPT ![Last(allocated)] = reverse[c], ![c] = 0]

\* remove() of a cookie, which throws cookie_invalid for another one
RemoveItem(c) ==
  /\ reverse[c] # 0 /\ Room
  /\ items' = SwapPop(items, reverse[c]) /\ allocated' = SwapPop(allocated, reverse[c])
  /\ reverse' = Relinked(c)
  /\ free' = Append(free, c) /\ given' = [given EXCEPT ![c] = 0]
  /\ UNCHANGED <<next, pending, throws, astray>>

Clear ==
  /\ next' = 0 /\ free' = <<>> /\ items' = <<>> /\ allocated' = <<>>
  /\ reverse' = [c \in Cookies |-> 0] /\ given' = [c \in Cookies |-> 0]
  /\ astray' = (astray \/ \E t \in Threads : pending[t] # Idle)
  /\ UNCHANGED <<pending, throws>>

Init ==
  /\ next = 0 /\ free = <<>> /\ items = <<>> /\ allocated = <<>>
  /\ reverse = [c \in Cookies |-> 0] /\ given = [c \in Cookies |-> 0]
  /\ pending = [t \in Threads |-> Idle] /\ throws = 0 /\ astray = FALSE

Next ==
  \/ \E t \in Threads :
       \/ NextCookie(t) \/ AddTwice(t) \/ AddThrows(t) \/ Return(t)
       \/ \E x \in Items : Add(t, x)
  \/ \E c \in Cookies : RemoveItem(c)
  \/ Clear

Spec == Init /\ [][Next]_vars

----------------------------------------------------------------------------
\* A cookie finds the item that was added under it and not removed, in a
\* jar that went astray as well.
Found ==
  \A c \in Cookies : IF given[c] = 0 THEN reverse[c] = 0
                     ELSE reverse[c] \in DOMAIN items /\ items[reverse[c]] = given[c]

Count(s, c) == Cardinality({i \in DOMAIN s : s[i] = c})

\* A cookie that was handed out is that of one item, or of one thread that
\* adds its item or failed to, or can be handed out again, once.
CookiesAccounted ==
  astray \/ \A c \in 1 .. next :
    Count(allocated, c) + Count(free, c) + Cardinality({t \in Threads : pending[t][2] = c}) = 1
=============================================================================
