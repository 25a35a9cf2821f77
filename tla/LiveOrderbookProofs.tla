------------------------- MODULE LiveOrderbookProofs -------------------------
(***************************************************************************)
(* Proofs about LiveOrderbook: a book is priced from exactly its orders, no   *)
(* operation loses a live order, and the prices are what they promise - bait  *)
(* is seen through, and a larger quantity never costs less per unit.  The     *)
(* units and the cost of a side are sums over finite sets (Induction); the    *)
(* step Op of that module is not used here.                                   *)
(***************************************************************************)
EXTENDS LiveOrderbook, Induction

(* A record of the fields of a book. *)
Book(b) ==
    [offers |-> b.offers, requests |-> b.requests, metrics |-> b.metrics,
     volume |-> b.volume, last_updated |-> b.last_updated]

(* books is a partial function to records of the fields of a book. *)
Shape ==
    /\ books = [k \in DOMAIN books |-> books[k]]
    /\ \A k \in DOMAIN books : books[k] = Book(books[k])

Exact(b, k) ==
    b.offers # <<>> \/ b.requests # <<>> =>
        b.metrics = Metrics(b.offers, b.requests, MinVolume[k])

Typed(b) ==
    /\ IsSide(b.offers) /\ IsSide(b.requests)
    /\ b.volume \in Volumes \cup {0}
    /\ b.last_updated \in 0..now

BooksTyped ==
    /\ now \in Nat
    /\ DOMAIN books \subseteq Keys
    /\ \A k \in DOMAIN books : Typed(books[k])

(* MetricsExact with what makes it inductive and its orders numbers. *)
Inv == Shape /\ BooksTyped /\ MetricsExact

(* A side stays one when an order is put into it. *)
LEMMA PutKeepsSide ==
    ASSUME NEW STATE side, IsSide(side), now \in Nat, NEW id \in OrderIds,
           NEW price \in Prices, NEW amount \in Amounts, NEW expires \in Expiries
    PROVE  IsSide(Put(side, id, Entry(price, amount, expires)))
<1> DEFINE entry == Entry(price, amount, expires)
<1>1. entry \in Order
  BY DEF Order, Entry
<1> HIDE DEF entry
<1>2. IsSide(Put(side, id, entry))
  <2>1. DOMAIN Put(side, id, entry) = DOMAIN side \cup {id}
    BY DEF Put
  <2>2. IsFiniteSet(DOMAIN side \cup {id})
    BY FS_AddElement DEF IsSide
  <2> QED
    BY <1>1, <2>1, <2>2 DEF IsSide, Put
<1> QED BY <1>2 DEF entry

(* Putting one exact book into the dictionary keeps the invariant. *)
LEMMA PutKeepsInv ==
    ASSUME Inv, NEW k \in Keys, NEW STATE b, b = Book(b), Exact(b, k), Typed(b),
           books' = Put(books, k, b), UNCHANGED now
    PROVE  /\ Inv'
           /\ DOMAIN books' = DOMAIN books \cup {k}
           /\ books'[k] = b
           /\ \A x \in DOMAIN books : x # k => books'[x] = books[x]
<1>1. DOMAIN books' = DOMAIN books \cup {k}
  BY DEF Put
<1>2. books'[k] = b /\ \A x \in DOMAIN books : x # k => books'[x] = books[x]
  BY DEF Put
<1>3. books' = [x \in DOMAIN books' |-> books'[x]]
  BY DEF Put
<1>4. \A x \in DOMAIN books' : books'[x] = Book(books'[x])
  BY <1>1, <1>2 DEF Inv, Shape
<1>5. \A x \in DOMAIN books' : Exact(books'[x], x)
  BY <1>1, <1>2 DEF Inv, MetricsExact, Exact
<1>6. \A x \in DOMAIN books' : Typed(books'[x])
  BY <1>1, <1>2 DEF Inv, BooksTyped
<1>7. BooksTyped'
  BY <1>1, <1>6 DEF Inv, BooksTyped, Typed
<1>8. Inv'
  BY <1>3, <1>4, <1>5, <1>7 DEF Inv, Shape, MetricsExact, Exact, Book
<1> QED BY <1>1, <1>2, <1>8

(* The book an order is put into: the present one, or an empty one. *)
LEMMA BookOfShape ==
    ASSUME Inv, NEW k
    PROVE  /\ BookOf(k) = Book(BookOf(k))
           /\ Exact(BookOf(k), k)
           /\ Typed(BookOf(k))
           /\ k \in DOMAIN books => BookOf(k) = books[k]
<1>1. CASE k \in DOMAIN books
  BY <1>1 DEF BookOf, Inv, Shape, BooksTyped, MetricsExact, Exact
<1>2. CASE k \notin DOMAIN books
  <2>1. BookOf(k) = EmptyBook
    BY <1>2 DEF BookOf
  <2>2. EmptyBook = Book(EmptyBook) /\ Exact(EmptyBook, k)
    BY DEF EmptyBook, Book, Exact
  <2>3. Typed(EmptyBook)
    <3>1. DOMAIN <<>> = {} /\ IsFiniteSet({})
      BY FS_EmptySet
    <3> QED
      BY <3>1 DEF EmptyBook, Typed, IsSide, Inv, BooksTyped
  <2> QED BY <1>2, <2>1, <2>2, <2>3
<1> QED BY <1>1, <1>2

(* Pricing a book keeps its fields and makes its metrics exact. *)
LEMMA RepriceShape ==
    ASSUME NEW k, NEW STATE b, b = Book(b)
    PROVE  /\ Reprice(k, b) = Book(Reprice(k, b))
           /\ Exact(Reprice(k, b), k)
           /\ Reprice(k, b).offers = b.offers
           /\ Reprice(k, b).requests = b.requests
           /\ Typed(b) => Typed(Reprice(k, b))
BY DEF Reprice, Book, Exact, Typed

(* An offer changes one book, and only adds to its offers. *)
LEMMA OfferStep ==
    ASSUME Inv, NEW k \in Keys, NEW id \in OrderIds, NEW price \in Prices,
           NEW amount \in Amounts, NEW expires \in Expiries,
           ReceiveOffer(k, id, price, amount, expires)
    PROVE  Inv' /\ \A x \in DOMAIN books : KeepsLiveOrders(x)
<1> DEFINE b == [BookOf(k) EXCEPT !.offers = Put(@, id, Entry(price, amount, expires)),
                                  !.last_updated = now]
<1>1. /\ BookOf(k) = Book(BookOf(k)) /\ Typed(BookOf(k))
      /\ k \in DOMAIN books => BookOf(k) = books[k]
  BY BookOfShape
<1>2. /\ b = Book(b)
      /\ b.offers = Put(BookOf(k).offers, id, Entry(price, amount, expires))
      /\ b.requests = BookOf(k).requests
      /\ b.volume = BookOf(k).volume /\ b.last_updated = now
  <2> DEFINE f == BookOf(k)
             side == Put(f.offers, id, Entry(price, amount, expires))
  <2>1. b = [f EXCEPT !.offers = side, !.last_updated = now]
    OBVIOUS
  <2>2. f = Book(f)
    BY <1>1
  <2> HIDE DEF f, side, b
  <2>3. b = [offers |-> side, requests |-> f.requests, metrics |-> f.metrics,
             volume |-> f.volume, last_updated |-> now]
    BY <2>1, <2>2 DEF Book
  <2>4. /\ b = Book(b) /\ b.offers = side /\ b.requests = f.requests
        /\ b.volume = f.volume /\ b.last_updated = now
    BY <2>3 DEF Book
  <2> QED BY <2>4 DEF f, side
<1> HIDE DEF b
<1>2a. Typed(b)
  BY <1>1, <1>2, PutKeepsSide DEF Typed, Inv, BooksTyped
<1>3. /\ Reprice(k, b) = Book(Reprice(k, b)) /\ Exact(Reprice(k, b), k)
      /\ Reprice(k, b).offers = b.offers /\ Reprice(k, b).requests = b.requests
      /\ Typed(Reprice(k, b))
  BY <1>2, <1>2a, RepriceShape
<1>4. books' = Put(books, k, Reprice(k, b)) /\ UNCHANGED now
  BY DEF ReceiveOffer, b
<1>5. /\ Inv'
      /\ DOMAIN books' = DOMAIN books \cup {k}
      /\ books'[k] = Reprice(k, b)
      /\ \A x \in DOMAIN books : x # k => books'[x] = books[x]
  BY <1>3, <1>4, PutKeepsInv
<1>6. DOMAIN BookOf(k).offers \subseteq DOMAIN b.offers
  BY <1>2 DEF Put
<1>7. \A x \in DOMAIN books : KeepsLiveOrders(x)
  BY <1>1, <1>2, <1>3, <1>5, <1>6 DEF KeepsLiveOrders
<1> QED BY <1>5, <1>7

(* So does a request with its requests. *)
LEMMA RequestStep ==
    ASSUME Inv, NEW k \in Keys, NEW id \in OrderIds, NEW price \in Prices,
           NEW amount \in Amounts, NEW expires \in Expiries,
           ReceiveRequest(k, id, price, amount, expires)
    PROVE  Inv' /\ \A x \in DOMAIN books : KeepsLiveOrders(x)
<1> DEFINE b == [BookOf(k) EXCEPT !.requests = Put(@, id, Entry(price, amount, expires)),
                                  !.last_updated = now]
<1>1. /\ BookOf(k) = Book(BookOf(k)) /\ Typed(BookOf(k))
      /\ k \in DOMAIN books => BookOf(k) = books[k]
  BY BookOfShape
<1>2. /\ b = Book(b)
      /\ b.requests = Put(BookOf(k).requests, id, Entry(price, amount, expires))
      /\ b.offers = BookOf(k).offers
      /\ b.volume = BookOf(k).volume /\ b.last_updated = now
  <2> DEFINE f == BookOf(k)
             side == Put(f.requests, id, Entry(price, amount, expires))
  <2>1. b = [f EXCEPT !.requests = side, !.last_updated = now]
    OBVIOUS
  <2>2. f = Book(f)
    BY <1>1
  <2> HIDE DEF f, side, b
  <2>3. b = [offers |-> f.offers, requests |-> side, metrics |-> f.metrics,
             volume |-> f.volume, last_updated |-> now]
    BY <2>1, <2>2 DEF Book
  <2>4. /\ b = Book(b) /\ b.requests = side /\ b.offers = f.offers
        /\ b.volume = f.volume /\ b.last_updated = now
    BY <2>3 DEF Book
  <2> QED BY <2>4 DEF f, side
<1> HIDE DEF b
<1>2a. Typed(b)
  BY <1>1, <1>2, PutKeepsSide DEF Typed, Inv, BooksTyped
<1>3. /\ Reprice(k, b) = Book(Reprice(k, b)) /\ Exact(Reprice(k, b), k)
      /\ Reprice(k, b).offers = b.offers /\ Reprice(k, b).requests = b.requests
      /\ Typed(Reprice(k, b))
  BY <1>2, <1>2a, RepriceShape
<1>4. books' = Put(books, k, Reprice(k, b)) /\ UNCHANGED now
  BY DEF ReceiveRequest, b
<1>5. /\ Inv'
      /\ DOMAIN books' = DOMAIN books \cup {k}
      /\ books'[k] = Reprice(k, b)
      /\ \A x \in DOMAIN books : x # k => books'[x] = books[x]
  BY <1>3, <1>4, PutKeepsInv
<1>6. DOMAIN BookOf(k).requests \subseteq DOMAIN b.requests
  BY <1>2 DEF Put
<1>7. \A x \in DOMAIN books : KeepsLiveOrders(x)
  BY <1>1, <1>2, <1>3, <1>5, <1>6 DEF KeepsLiveOrders
<1> QED BY <1>5, <1>7

(* An order without an id at most opens an empty book. *)
LEMMA AnonymousStep ==
    ASSUME Inv, NEW k \in Keys, ReceiveAnonymous(k)
    PROVE  Inv' /\ \A x \in DOMAIN books : KeepsLiveOrders(x)
<1>1. /\ BookOf(k) = Book(BookOf(k)) /\ Exact(BookOf(k), k) /\ Typed(BookOf(k))
      /\ k \in DOMAIN books => BookOf(k) = books[k]
  BY BookOfShape
<1>2. /\ Inv'
      /\ DOMAIN books' = DOMAIN books \cup {k}
      /\ books'[k] = BookOf(k)
      /\ \A x \in DOMAIN books : x # k => books'[x] = books[x]
  BY <1>1, PutKeepsInv DEF ReceiveAnonymous
<1>3. \A x \in DOMAIN books : books'[x] = books[x]
  BY <1>1, <1>2
<1> QED BY <1>2, <1>3 DEF KeepsLiveOrders

(* A history only sets the volume. *)
LEMMA HistoryStep ==
    ASSUME Inv, NEW k \in Keys, NEW v \in Volumes, ReceiveHistory(k, v)
    PROVE  Inv' /\ \A x \in DOMAIN books : KeepsLiveOrders(x)
<1>1. /\ DOMAIN books' = DOMAIN books
      /\ books' = [x \in DOMAIN books' |-> books'[x]]
      /\ books'[k] = [books[k] EXCEPT !.volume = v]
      /\ \A x \in DOMAIN books : x # k => books'[x] = books[x]
  BY DEF ReceiveHistory, Inv, Shape
<1>2. \A x \in DOMAIN books : books[x] = Book(books[x])
  BY DEF Inv, Shape
<1>3. k \in DOMAIN books
  BY DEF ReceiveHistory
<1>4. /\ books'[k] = Book(books'[k])
      /\ books'[k].offers = books[k].offers
      /\ books'[k].requests = books[k].requests
      /\ books'[k].metrics = books[k].metrics
      /\ books'[k].volume = v /\ books'[k].last_updated = books[k].last_updated
  BY <1>1, <1>2, <1>3 DEF Book
<1>5. \A x \in DOMAIN books : /\ books'[x].offers = books[x].offers
                             /\ books'[x].requests = books[x].requests
                             /\ books'[x].metrics = books[x].metrics
  BY <1>1, <1>4
<1>6. \A x \in DOMAIN books' : books'[x] = Book(books'[x])
  BY <1>1, <1>2, <1>4 DEF Book
<1>7. Shape'
  BY <1>1, <1>6 DEF Shape, Book
<1>8. MetricsExact'
  BY <1>1, <1>5 DEF MetricsExact, Inv
<1>9. \A x \in DOMAIN books' : Typed(books'[x])
  BY <1>1, <1>4 DEF Inv, BooksTyped, Typed
<1>10. BooksTyped'
  BY <1>1, <1>9 DEF ReceiveHistory, Inv, BooksTyped, Typed
<1> QED BY <1>1, <1>5, <1>7, <1>8, <1>10 DEF Inv, KeepsLiveOrders

(* A dismissal takes whole books away. *)
LEMMA DismissStep ==
    ASSUME Inv, NEW item \in Items, Dismiss(item)
    PROVE  Inv' /\ \A x \in DOMAIN books : Dismissed(x) \/ KeepsLiveOrders(x)
<1>1. books' = [k \in DOMAIN books \ item |-> books[k]] /\ UNCHANGED now
  BY DEF Dismiss
<1>2. Inv'
  BY <1>1 DEF Inv, Shape, BooksTyped, Typed, MetricsExact, Book
<1>3. ASSUME NEW x \in DOMAIN books
      PROVE  Dismissed(x) \/ KeepsLiveOrders(x)
  BY <1>1 DEF Dismissed, KeepsLiveOrders
<1> QED BY <1>2, <1>3

(* What a purge makes of a book. *)
LEMMA PurgedShape ==
    ASSUME Inv, NEW k \in DOMAIN books
    PROVE  /\ Purged(k) = Book(Purged(k))
           /\ Exact(Purged(k), k)
           /\ Typed(Purged(k))
           /\ Purged(k).offers = KeptOffers(k)
           /\ Purged(k).requests = KeptRequests(k)
<1>1. books[k] = Book(books[k])
  BY DEF Inv, Shape
<1>2. /\ KeptBook(k) = Book(KeptBook(k))
      /\ KeptBook(k).offers = KeptOffers(k)
      /\ KeptBook(k).requests = KeptRequests(k)
      /\ KeptBook(k).volume = books[k].volume
      /\ KeptBook(k).last_updated = books[k].last_updated
  <2> DEFINE f == books[k]
             c == KeptBook(k)
  <2>1. c = [f EXCEPT !.offers = KeptOffers(k), !.requests = KeptRequests(k)]
    BY DEF KeptBook
  <2>2. f = Book(f)
    BY <1>1
  <2> HIDE DEF f, c
  <2>3. c = [offers |-> KeptOffers(k), requests |-> KeptRequests(k), metrics |-> f.metrics,
             volume |-> f.volume, last_updated |-> f.last_updated]
    BY <2>1, <2>2 DEF Book
  <2>4. /\ c = Book(c) /\ c.offers = KeptOffers(k) /\ c.requests = KeptRequests(k)
        /\ c.volume = f.volume /\ c.last_updated = f.last_updated
    BY <2>3 DEF Book
  <2> QED BY <2>4 DEF c, f
<1>3. IsSide(KeptOffers(k)) /\ IsSide(KeptRequests(k))
  <2>1. IsSide(books[k].offers) /\ IsSide(books[k].requests)
    BY DEF Inv, BooksTyped, Typed
  <2>2. /\ DOMAIN KeptOffers(k) \subseteq DOMAIN books[k].offers
        /\ DOMAIN KeptRequests(k) \subseteq DOMAIN books[k].requests
        /\ \A o \in DOMAIN KeptOffers(k) : KeptOffers(k)[o] = books[k].offers[o]
        /\ \A o \in DOMAIN KeptRequests(k) : KeptRequests(k)[o] = books[k].requests[o]
    BY DEF KeptOffers, KeptRequests
  <2>3. IsFiniteSet(DOMAIN KeptOffers(k)) /\ IsFiniteSet(DOMAIN KeptRequests(k))
    BY <2>1, <2>2, FS_Subset DEF IsSide
  <2> QED
    BY <2>1, <2>2, <2>3 DEF IsSide
<1>4. Typed(KeptBook(k))
  BY <1>2, <1>3 DEF Inv, BooksTyped, Typed
<1>5. CASE Emptied(k)
  BY <1>2, <1>4, <1>5 DEF Purged, Emptied, Exact
<1>6. CASE ~Emptied(k)
  BY <1>2, <1>4, <1>6, RepriceShape DEF Purged
<1> QED BY <1>5, <1>6

(* A purge prices what it leaves and leaves every live order. *)
LEMMA PurgeStep ==
    ASSUME Inv, Purge
    PROVE  Inv' /\ \A x \in DOMAIN books : KeepsLiveOrders(x)
<1>1. /\ books' = [k \in {x \in DOMAIN books : ~Abandoned(x)} |-> Purged(k)]
      /\ UNCHANGED now
  BY DEF Purge
<1>2. \A k \in DOMAIN books' : k \in DOMAIN books /\ books'[k] = Purged(k)
  BY <1>1
<1>3. \A k \in DOMAIN books' :
          books'[k] = Book(books'[k]) /\ Exact(books'[k], k) /\ Typed(books'[k])
  BY <1>2, PurgedShape
<1>4. Inv'
  <2>1. Shape'
    BY <1>1, <1>3 DEF Shape, Book
  <2>2. BooksTyped'
    BY <1>1, <1>2, <1>3 DEF Inv, BooksTyped, Typed
  <2>3. MetricsExact'
    BY <1>3 DEF MetricsExact, Exact
  <2> QED BY <2>1, <2>2, <2>3 DEF Inv
<1>5. ASSUME NEW k \in DOMAIN books
      PROVE  KeepsLiveOrders(k)
  <2>1. ASSUME NEW o \in DOMAIN books[k].offers, LiveOffer(k, books[k].offers[o])
        PROVE  o \in DOMAIN KeptOffers(k)
    <3>1. KeepsOffer(k, books[k].offers[o])
      BY <2>1, TtlAssumption DEF LiveOffer, KeepsOffer, NotExpired, Inv, BooksTyped, Typed, IsSide, Order
    <3> QED BY <3>1 DEF KeptOffers
  <2>2. ASSUME NEW o \in DOMAIN books[k].requests, LiveRequest(k, books[k].requests[o])
        PROVE  o \in DOMAIN KeptRequests(k)
    <3>1. KeepsRequest(k, books[k].requests[o])
      BY <2>2, TtlAssumption DEF LiveRequest, KeepsRequest, NotExpired, Inv, BooksTyped, Typed, IsSide, Order
    <3> QED BY <3>1 DEF KeptRequests
  <2>3. CASE Abandoned(k)
    <3>1. KeptOffers(k) = <<>> /\ KeptRequests(k) = <<>>
      BY <2>3 DEF Abandoned, Emptied
    <3>2. \A o : o \notin DOMAIN <<>>
      OBVIOUS
    <3>3. \A o : o \notin DOMAIN KeptOffers(k) /\ o \notin DOMAIN KeptRequests(k)
      BY <3>1, <3>2
    <3> QED BY <2>1, <2>2, <3>3 DEF KeepsLiveOrders
  <2>4. CASE ~Abandoned(k)
    <3>1. k \in DOMAIN books' /\ books'[k] = Purged(k)
      BY <1>1, <2>4
    <3>2. books'[k].offers = KeptOffers(k) /\ books'[k].requests = KeptRequests(k)
      BY <3>1, PurgedShape
    <3> QED BY <2>1, <2>2, <3>1, <3>2 DEF KeepsLiveOrders
  <2> QED BY <2>3, <2>4
<1> QED BY <1>4, <1>5

(* Every step keeps the invariant and the live orders. *)
LEMMA Step ==
    ASSUME Inv, [Next]_vars
    PROVE  Inv' /\ \A x \in DOMAIN books : Dismissed(x) \/ KeepsLiveOrders(x)
<1>1. ASSUME NEW k \in Keys, NEW id \in OrderIds, NEW p \in Prices,
             NEW a \in Amounts, NEW e \in Expiries, ReceiveOffer(k, id, p, a, e)
      PROVE  Inv' /\ \A x \in DOMAIN books : Dismissed(x) \/ KeepsLiveOrders(x)
  BY <1>1, OfferStep
<1>2. ASSUME NEW k \in Keys, NEW id \in OrderIds, NEW p \in Prices,
             NEW a \in Amounts, NEW e \in Expiries, ReceiveRequest(k, id, p, a, e)
      PROVE  Inv' /\ \A x \in DOMAIN books : Dismissed(x) \/ KeepsLiveOrders(x)
  BY <1>2, RequestStep
<1>3. ASSUME NEW k \in Keys, ReceiveAnonymous(k)
      PROVE  Inv' /\ \A x \in DOMAIN books : Dismissed(x) \/ KeepsLiveOrders(x)
  BY <1>3, AnonymousStep
<1>4. ASSUME NEW k \in Keys, NEW v \in Volumes, ReceiveHistory(k, v)
      PROVE  Inv' /\ \A x \in DOMAIN books : Dismissed(x) \/ KeepsLiveOrders(x)
  BY <1>4, HistoryStep
<1>5. ASSUME NEW item \in Items, Dismiss(item)
      PROVE  Inv' /\ \A x \in DOMAIN books : Dismissed(x) \/ KeepsLiveOrders(x)
  BY <1>5, DismissStep
<1>6. CASE Purge
  BY <1>6, PurgeStep
<1>7. CASE HandOver \/ Write \/ StartClient \/ StopClient \/ Tick \/ UNCHANGED vars
  <2>1. UNCHANGED books /\ now' \in {now, now + 1}
    BY <1>7 DEF HandOver, Write, WriteBatch, WriteFails, StartClient, StopClient, Tick, vars
  <2>2. BooksTyped'
    BY <2>1 DEF Inv, BooksTyped, Typed
  <2>3. Shape' /\ MetricsExact'
    BY <2>1 DEF Inv, Shape, MetricsExact, Book
  <2> QED BY <2>1, <2>2, <2>3 DEF Inv, KeepsLiveOrders
<1> QED BY <1>1, <1>2, <1>3, <1>4, <1>5, <1>6, <1>7 DEF Next, Receive

(* Whatever the orders, prices and retention times: a book that has an order   *)
(* is priced from exactly its orders (_recalculate_lob_metrics).               *)
THEOREM BooksArePriced == Spec => []MetricsExact
<1>1. Init => Inv
  BY DEF Init, Inv, Shape, BooksTyped, MetricsExact
<1>2. Inv /\ [Next]_vars => Inv'
  BY Step
<1>3. Inv => MetricsExact
  BY DEF Inv
<1> QED BY <1>1, <1>2, <1>3, PTL DEF Spec

(* No operation of the client loses a live order (_expiration_purger). *)
THEOREM OrdersSurvive == Spec => LiveOrdersSurvive
<1>1. Init => Inv
  BY DEF Init, Inv, Shape, BooksTyped, MetricsExact
<1>2. Inv /\ [Next]_vars => Inv'
  BY Step
<1>3. Inv /\ [Next]_vars =>
          [\A k \in DOMAIN books : Dismissed(k) \/ KeepsLiveOrders(k)]_vars
  BY Step
<1> QED BY <1>1, <1>2, <1>3, PTL DEF Spec, LiveOrdersSurvive

----------------------------------------------------------------------------
(* Buffer and rows.  Nothing in a row depends on what the metrics are.        *)

RowsShaped ==
    /\ DOMAIN stored = Keys
    /\ \A k \in Keys :
          \/ stored[k] = NoRow
          \/ stored[k] = [bucket |-> stored[k].bucket, sell |-> stored[k].sell,
                         buy |-> stored[k].buy, volume |-> stored[k].volume]

BufferOK ==
    /\ phase \in {"new", "running", "stopped"}
    /\ order_buffer \subseteq Keys /\ snapshot \subseteq Keys

(* A step keeps the buffer, the batch in flight and the rows in shape. *)
LEMMA BufferStep ==
    now \in Nat /\ BufferOK /\ RowsShaped /\ [Next]_vars => BufferOK' /\ RowsShaped'
<1> SUFFICES ASSUME now \in Nat, BufferOK, RowsShaped, [Next]_vars PROVE BufferOK' /\ RowsShaped'
  OBVIOUS
<1> USE DEF BufferOK, RowsShaped
<1>1. CASE Receive
  BY <1>1 DEF Receive, ReceiveOffer, ReceiveRequest, ReceiveAnonymous, ReceiveHistory
<1>2. CASE \E item \in Items : Dismiss(item)
  BY <1>2 DEF Dismiss
<1>3. CASE Purge \/ HandOver \/ StartClient \/ StopClient \/ Tick \/ WriteFails \/ UNCHANGED vars
  BY <1>3 DEF Purge, HandOver, StartClient, StopClient, Tick, WriteFails, vars
<1>4. CASE WriteBatch
  <2>1. stored' = [k \in Keys |-> IF Writable(k) THEN UpsertedRow(k) ELSE stored[k]]
    BY <1>4 DEF WriteBatch
  <2>2. ASSUME NEW k \in Keys, Writable(k)
        PROVE  UpsertedRow(k) = [bucket |-> UpsertedRow(k).bucket, sell |-> UpsertedRow(k).sell,
                                 buy |-> UpsertedRow(k).buy, volume |-> UpsertedRow(k).volume]
    <3>1. CASE stored[k].bucket = Bucket(now) /\ stored[k] # NoRow
      BY <3>1 DEF UpsertedRow
    <3>2. CASE stored[k].bucket = Bucket(now) /\ stored[k] = NoRow
      <4>1. Bucket(now) = Never
        BY <3>2 DEF NoRow
      <4>2. Bucket(now) \in Nat
        BY ClockAssumption DEF Bucket
      <4> QED
        BY <4>1, <4>2, OrderAssumption
    <3>3. CASE stored[k].bucket # Bucket(now)
      BY <3>3 DEF UpsertedRow
    <3> QED
      BY <3>1, <3>2, <3>3
  <2>3. RowsShaped'
    BY <2>1, <2>2
  <2> QED
    BY <1>4, <2>3 DEF WriteBatch
<1> QED
  BY <1>1, <1>2, <1>3, <1>4 DEF Next, Write

(* Every book, order, buffer and row has its type.                            *)
THEOREM TypeCorrect == Spec => []TypeOK
<1>1. Init => Inv /\ BufferOK /\ RowsShaped
  BY DEF Init, Inv, Shape, BooksTyped, MetricsExact, BufferOK, RowsShaped
<1>2. Inv /\ BufferOK /\ RowsShaped /\ [Next]_vars => Inv' /\ BufferOK' /\ RowsShaped'
  BY Step, BufferStep DEF Inv, BooksTyped
<1>3. Inv /\ BufferOK /\ RowsShaped => TypeOK
  BY DEF Inv, BooksTyped, Typed, BufferOK, RowsShaped, TypeOK
<1> QED
  BY <1>1, <1>2, <1>3, PTL DEF Spec

(* A price the feed has stored stays in the row as long as its bucket lasts,   *)
(* whatever the books become in between (the conflict clause of the upsert).   *)
THEOREM RowsKeepPrices == Spec => StoredPricesStay
<1> DEFINE Stay == \A k \in Keys :
                      stored[k] # NoRow /\ stored'[k].bucket = stored[k].bucket =>
                          /\ stored[k].sell > 0 => stored'[k].sell > 0
                          /\ stored[k].buy > 0 => stored'[k].buy > 0
<1>1. Init => Inv /\ BufferOK /\ RowsShaped
  BY DEF Init, Inv, Shape, BooksTyped, MetricsExact, BufferOK, RowsShaped
<1>2. Inv /\ BufferOK /\ RowsShaped /\ [Next]_vars => Inv' /\ BufferOK' /\ RowsShaped'
  BY Step, BufferStep DEF Inv, BooksTyped
<1>3. ASSUME RowsShaped, [Next]_vars PROVE Stay
  <2>1. CASE WriteBatch
    <3> SUFFICES ASSUME NEW k \in Keys, stored[k] # NoRow, stored'[k].bucket = stored[k].bucket
                 PROVE  /\ stored[k].sell > 0 => stored'[k].sell > 0
                        /\ stored[k].buy > 0 => stored'[k].buy > 0
      OBVIOUS
    <3>1. stored'[k] = IF Writable(k) THEN UpsertedRow(k) ELSE stored[k]
      BY <2>1 DEF WriteBatch
    <3>2. stored[k] = [bucket |-> stored[k].bucket, sell |-> stored[k].sell,
                       buy |-> stored[k].buy, volume |-> stored[k].volume]
      BY <1>3 DEF RowsShaped
    <3>3. CASE ~Writable(k)
      BY <3>1, <3>3
    <3>4. CASE Writable(k) /\ stored[k].bucket = Bucket(now)
      <4>1. /\ stored'[k].sell = Coalesce(books[k].metrics.true_sell, stored[k].sell)
            /\ stored'[k].buy = Coalesce(books[k].metrics.true_buy, stored[k].buy)
        BY <3>1, <3>2, <3>4 DEF UpsertedRow
      <4> QED
        BY <4>1 DEF Coalesce
    <3>5. CASE Writable(k) /\ stored[k].bucket # Bucket(now)
      BY <3>1, <3>5 DEF UpsertedRow
    <3> QED
      BY <3>3, <3>4, <3>5
  <2>2. CASE UNCHANGED stored
    BY <2>2
  <2>3. CASE Receive \/ (\E item \in Items : Dismiss(item)) \/ Purge \/ HandOver \/ WriteFails
             \/ StartClient \/ StopClient \/ Tick \/ UNCHANGED vars
    <3>1. UNCHANGED stored
      BY <2>3 DEF Receive, ReceiveOffer, ReceiveRequest, ReceiveAnonymous, ReceiveHistory,
          Dismiss, Purge, HandOver, WriteFails, StartClient, StopClient, Tick, vars
    <3> QED
      BY <2>2, <3>1
  <2> QED
    BY <1>3, <2>1, <2>3 DEF Next, Write
<1>4. RowsShaped /\ [Next]_vars => [Stay]_vars
  BY <1>3
<1> QED
  BY <1>1, <1>2, <1>4, PTL DEF Spec, StoredPricesStay

----------------------------------------------------------------------------
(* The units of a side *)

(* Finitely many orders, of numbers. *)
IsCounted(side) ==
    /\ IsFiniteSet(DOMAIN side)
    /\ \A o \in DOMAIN side : side[o].price \in Nat /\ side[o].amount \in Nat

(* The units of some orders are the sum of their amounts. *)
LEMMA UnitsAreASum ==
    ASSUME NEW side, NEW S, IsFiniteSet(S), NEW w, \A o \in S : w[o] = side[o].amount
    PROVE  UnitsOf(side, S) = Sum(w, S)
<1> DEFINE Is(f) == f = [s \in SUBSET S |-> IF s = {} THEN 0
                           ELSE side[CHOOSE x \in s : TRUE].amount + f[s \ {CHOOSE x \in s : TRUE}]]
<1>1. UnitsOf(side, S) = (CHOOSE f : Is(f))[S]
  BY DEF UnitsOf, MapThenSumSet, MapThenFoldSet
<1>2. \A f : IsSum(w, S, f) <=> Is(f)
  <2> TAKE f
  <2> DEFINE A == [s \in SUBSET S |-> IF s = {} THEN 0 ELSE w[Some(s)] + f[s \ {Some(s)}]]
             B == [s \in SUBSET S |-> IF s = {} THEN 0
                     ELSE side[CHOOSE x \in s : TRUE].amount + f[s \ {CHOOSE x \in s : TRUE}]]
  <2>1. A = B
    <3> SUFFICES ASSUME NEW s \in SUBSET S PROVE A[s] = B[s]
      OBVIOUS
    <3>1. s # {} => w[CHOOSE x \in s : TRUE] = side[CHOOSE x \in s : TRUE].amount
      OBVIOUS
    <3> QED
      BY <3>1 DEF Some
  <2> QED
    BY <2>1 DEF IsSum
<1>3. \E f : IsSum(w, S, f)
  BY SumExists
<1> HIDE DEF Is
<1>4. IsSum(w, S, CHOOSE f : Is(f)) /\ IsSum(w, S, CHOOSE f : IsSum(w, S, f))
  BY <1>2, <1>3, Zenon
<1> QED
  BY <1>1, <1>4, SumsAgree DEF Sum

(* Some orders and the others have as many units as all together. *)
LEMMA UnitsAddUp ==
    ASSUME NEW side, IsCounted(side), NEW S \in SUBSET DOMAIN side, NEW T \in SUBSET S
    PROVE  /\ UnitsOf(side, S) \in Nat /\ UnitsOf(side, T) \in Nat /\ UnitsOf(side, S \ T) \in Nat
           /\ UnitsOf(side, S) = UnitsOf(side, T) + UnitsOf(side, S \ T)
<1> DEFINE w == [o \in DOMAIN side |-> side[o].amount]
<1>1. IsFiniteSet(S) /\ IsFiniteSet(T) /\ IsFiniteSet(S \ T)
  BY FS_Subset DEF IsCounted
<1>2. \A x \in S : w[x] = side[x].amount /\ w[x] \in Nat
  BY DEF IsCounted
<1> HIDE DEF w
<1>3. /\ UnitsOf(side, S) = Sum(w, S) /\ UnitsOf(side, T) = Sum(w, T)
      /\ UnitsOf(side, S \ T) = Sum(w, S \ T)
  BY <1>1, <1>2, UnitsAreASum
<1>4. Sum(w, S) \in Nat /\ Sum(w, T) \in Nat /\ Sum(w, S \ T) \in Nat
  BY <1>1, <1>2, SumType
<1>5. Sum(w, S) = Sum(w, T) + Sum(w, S \ T)
  BY <1>1, <1>2, SumsAddUp
<1> QED
  BY <1>3, <1>4, <1>5

(* So more orders have no fewer units, *)
LEMMA MoreOrdersMoreUnits ==
    ASSUME NEW side, IsCounted(side), NEW S, S \subseteq DOMAIN side, NEW T, T \subseteq S
    PROVE  UnitsOf(side, T) <= UnitsOf(side, S)
<1>1. /\ UnitsOf(side, S) \in Nat /\ UnitsOf(side, T) \in Nat /\ UnitsOf(side, S \ T) \in Nat
      /\ UnitsOf(side, S) = UnitsOf(side, T) + UnitsOf(side, S \ T)
  <2>1. S \in SUBSET DOMAIN side /\ T \in SUBSET S
    OBVIOUS
  <2> QED
    BY <2>1, UnitsAddUp
<1> QED
  BY <1>1

(* none have none, *)
LEMMA NoUnits ==
    ASSUME NEW side
    PROVE  UnitsOf(side, {}) = 0
<1> DEFINE w == [o \in {} |-> 0]
<1>1. IsFiniteSet({}) /\ \A o \in {} : w[o] = side[o].amount
  BY FS_EmptySet
<1> HIDE DEF w
<1>2. UnitsOf(side, {}) = Sum(w, {})
  BY <1>1, UnitsAreASum
<1> QED
  BY <1>1, <1>2, SumSteps

(* and the same orders in two sides the same. *)
LEMMA SameUnits ==
    ASSUME NEW one, NEW other, NEW S, IsFiniteSet(S), \A o \in S : one[o] = other[o]
    PROVE  UnitsOf(one, S) = UnitsOf(other, S)
<1> DEFINE w == [o \in S |-> one[o].amount]
<1>1. \A o \in S : w[o] = one[o].amount /\ w[o] = other[o].amount
  OBVIOUS
<1> HIDE DEF w
<1> QED
  BY <1>1, UnitsAreASum

----------------------------------------------------------------------------
(* The prices of a side *)

(* Some prices have a least one, *)
LEMMA LeastPrice ==
    ASSUME NEW S, S \subseteq Nat, S # {}
    PROVE  Min(S) \in S /\ \A x \in S : Min(S) <= x
<1>1. \E x \in S : \A y \in S : x <= y
  BY LeastMember
<1> QED
  BY <1>1, Zenon DEF Min

(* and finitely many a greatest one. *)
LEMMA GreatestPrice ==
    ASSUME NEW S, S \subseteq Nat, S # {}, IsFiniteSet(S)
    PROVE  Max(S) \in S /\ \A x \in S : x <= Max(S)
<1>1. \E x \in S : \A y \in S : x >= y
  BY GreatestMember
<1>2. Max(S) \in S /\ \A y \in S : Max(S) >= y
  BY <1>1, Zenon DEF Max
<1> QED
  BY <1>2

(* Up to the dearest order of a side all its units are offered. *)
LEMMA PricesOfSide ==
    ASSUME NEW side, IsCounted(side), Valid(side) # {}
    PROVE  /\ PricesOf(side) \subseteq Nat /\ IsFiniteSet(PricesOf(side))
           /\ Min(PricesOf(side)) \in PricesOf(side)
           /\ \A p \in PricesOf(side) : Min(PricesOf(side)) <= p
           /\ Max(PricesOf(side)) \in PricesOf(side)
           /\ \A p \in PricesOf(side) : p <= Max(PricesOf(side))
           /\ OfferedUpTo(side, Max(PricesOf(side))) = Depth(side)
<1>1. IsFiniteSet(Valid(side))
  BY FS_Subset DEF Valid, IsCounted
<1>2. PricesOf(side) \subseteq Nat /\ PricesOf(side) # {}
  BY DEF PricesOf, Valid, IsCounted
<1>3. IsFiniteSet(PricesOf(side))
  <2> DEFINE f == [o \in Valid(side) |-> side[o].price]
  <2>1. f \in Surjection(Valid(side), PricesOf(side))
    BY DEF Surjection, PricesOf
  <2> QED
    BY <1>1, <2>1, FS_Surjection
<1>4. /\ Min(PricesOf(side)) \in PricesOf(side)
      /\ \A p \in PricesOf(side) : Min(PricesOf(side)) <= p
  BY <1>2, LeastPrice
<1>5. /\ Max(PricesOf(side)) \in PricesOf(side)
      /\ \A p \in PricesOf(side) : p <= Max(PricesOf(side))
  BY <1>2, <1>3, GreatestPrice
<1>6. {o \in Valid(side) : side[o].price <= Max(PricesOf(side))} = Valid(side)
  BY <1>5 DEF PricesOf
<1> QED
  BY <1>2, <1>3, <1>4, <1>5, <1>6 DEF OfferedUpTo, Depth

----------------------------------------------------------------------------
(* Bait *)

(* true_sell_price: orders of fewer units than the anti bait volume cannot be  *)
(* all that is seen when the walk over the offers has that volume.            *)
LEMMA BaitIsSeenThrough ==
    ASSUME NEW old, NEW new, IsCounted(old), IsCounted(new), NEW volume \in Nat,
           DOMAIN old \subseteq DOMAIN new, \A o \in DOMAIN old : new[o] = old[o],
           Depth(old) >= volume, Depth(new) - Depth(old) < volume
    PROVE  TrueSell(new, volume) >= TopSell(old)
<1> DEFINE V == Valid(old)
           W == Valid(new)
<1>1. V \subseteq W /\ W \subseteq DOMAIN new /\ V \subseteq DOMAIN old
  BY DEF Valid
<1>2. Depth(old) = UnitsOf(new, V)
  <2>1. IsFiniteSet(V)
    BY <1>1, FS_Subset DEF IsCounted
  <2>2. \A o \in V : old[o] = new[o]
    BY <1>1
  <2> HIDE DEF V
  <2> QED
    BY <2>1, <2>2, SameUnits DEF Depth, V
<1>3. /\ UnitsOf(new, W) \in Nat /\ UnitsOf(new, V) \in Nat /\ UnitsOf(new, W \ V) \in Nat
      /\ UnitsOf(new, W) = UnitsOf(new, V) + UnitsOf(new, W \ V)
  <2> HIDE DEF V, W
  <2>1. W \in SUBSET DOMAIN new /\ V \in SUBSET W
    BY <1>1
  <2>2. \A S \in SUBSET DOMAIN new : \A T \in SUBSET S :
            /\ UnitsOf(new, S) \in Nat /\ UnitsOf(new, T) \in Nat /\ UnitsOf(new, S \ T) \in Nat
            /\ UnitsOf(new, S) = UnitsOf(new, T) + UnitsOf(new, S \ T)
    BY UnitsAddUp
  <2> QED
    BY <2>1, <2>2, Zenon
<1>4. UnitsOf(new, W \ V) < volume /\ UnitsOf(new, W) >= volume /\ UnitsOf(new, V) > 0
  BY <1>2, <1>3 DEF Depth
<1>5. V # {} /\ W # {}
  BY <1>1, <1>4, NoUnits
<1> DEFINE P == {p \in PricesOf(new) : OfferedUpTo(new, p) >= volume}
<1>6. Min(P) \in P
  <2>1. P \subseteq Nat /\ Max(PricesOf(new)) \in P
    BY <1>4, <1>5, PricesOfSide DEF Depth
  <2> QED
    BY <2>1, LeastPrice
<1>7. TrueSell(new, volume) = Min(P)
  <2>1. ~(Depth(new) < volume)
    BY <1>3, <1>4 DEF Depth
  <2> QED
    BY <1>5, <2>1 DEF TrueSell
<1>8. /\ TopSell(old) = Min(PricesOf(old)) /\ Min(PricesOf(old)) \in Nat
      /\ \A o \in V : new[o].price >= Min(PricesOf(old))
  <2>1. /\ PricesOf(old) \subseteq Nat /\ Min(PricesOf(old)) \in PricesOf(old)
        /\ \A p \in PricesOf(old) : Min(PricesOf(old)) <= p
    BY <1>5, PricesOfSide
  <2>2. \A o \in V : old[o].price \in PricesOf(old) /\ old[o] = new[o]
    BY <1>1 DEF PricesOf
  <2> QED
    BY <1>5, <2>1, <2>2 DEF TopSell
<1> SUFFICES ASSUME Min(P) < Min(PricesOf(old)) PROVE FALSE
  <2>1. Min(P) \in Nat
    BY <1>5, <1>6, PricesOfSide
  <2> QED
    BY <1>7, <1>8, <2>1
<1> DEFINE cheap == {o \in W : new[o].price <= Min(P)}
<1>9. OfferedUpTo(new, Min(P)) = UnitsOf(new, cheap) /\ UnitsOf(new, cheap) >= volume
  BY <1>6 DEF OfferedUpTo
<1>10. cheap \subseteq W \ V
  <2>1. Min(P) \in Nat
    BY <1>5, <1>6, PricesOfSide
  <2>2. \A o \in W : new[o].price \in Nat
    BY <1>1 DEF IsCounted
  <2> HIDE DEF P, V, W
  <2> QED
    BY <1>8, <2>1, <2>2
<1>11. UnitsOf(new, cheap) <= UnitsOf(new, W \ V) /\ UnitsOf(new, cheap) \in Nat
  <2>1. W \ V \subseteq DOMAIN new
    BY <1>1
  <2> HIDE DEF cheap, W, V
  <2> QED
    BY <1>10, <2>1, MoreOrdersMoreUnits, UnitsAddUp
<1> QED
  BY <1>3, <1>4, <1>9, <1>11
----------------------------------------------------------------------------
(* The cost of a quantity *)

(* What filling a quantity costs is a sum over the prices of the side, *)
LEMMA FillIsASum ==
    ASSUME NEW side, NEW q, IsFiniteSet(PricesOf(side)), NEW w,
           \A p \in PricesOf(side) : w[p] = p * TakenAt(side, p, q)
    PROVE  FillCost(side, q) = Sum(w, PricesOf(side))
<1> DEFINE S == PricesOf(side)
           c(p) == p * TakenAt(side, p, q)
           Is(f) == f = [s \in SUBSET S |-> IF s = {} THEN 0
                           ELSE c(CHOOSE x \in s : TRUE) + f[s \ {CHOOSE x \in s : TRUE}]]
<1>1. FillCost(side, q) = (CHOOSE f : Is(f))[S]
  BY DEF FillCost, MapThenSumSet, MapThenFoldSet
<1>2. \A f : IsSum(w, S, f) <=> Is(f)
  <2> TAKE f
  <2> DEFINE A == [s \in SUBSET S |-> IF s = {} THEN 0 ELSE w[Some(s)] + f[s \ {Some(s)}]]
             B == [s \in SUBSET S |-> IF s = {} THEN 0
                     ELSE c(CHOOSE x \in s : TRUE) + f[s \ {CHOOSE x \in s : TRUE}]]
  <2>1. A = B
    <3> SUFFICES ASSUME NEW s \in SUBSET S PROVE A[s] = B[s]
      OBVIOUS
    <3>1. s # {} => w[CHOOSE x \in s : TRUE] = c(CHOOSE x \in s : TRUE)
      OBVIOUS
    <3> HIDE DEF c, S
    <3> QED
      BY <3>1 DEF Some
  <2> QED
    BY <2>1 DEF IsSum
<1>3. \E f : IsSum(w, S, f)
  BY SumExists
<1> HIDE DEF Is
<1>4. IsSum(w, S, CHOOSE f : Is(f)) /\ IsSum(w, S, CHOOSE f : IsSum(w, S, f))
  BY <1>2, <1>3, Zenon
<1> HIDE DEF c
<1> QED
  BY <1>1, <1>4, SumsAgree DEF Sum

----------------------------------------------------------------------------
(* The units up to and below a price *)

(* A dearer price has at least all the units of a cheaper one below it. *)
LEMMA UnitsByPrice ==
    ASSUME NEW side, IsCounted(side)
    PROVE  /\ Depth(side) \in Nat
           /\ \A p \in Nat : /\ OfferedUpTo(side, p) \in Nat /\ OfferedBelow(side, p) \in Nat
                             /\ OfferedBelow(side, p) <= OfferedUpTo(side, p)
                             /\ OfferedUpTo(side, p) <= Depth(side)
           /\ \A p, r \in Nat : p < r => OfferedUpTo(side, p) <= OfferedBelow(side, r)
<1> DEFINE V == Valid(side)
           upto(p) == {o \in V : side[o].price <= p}
           below(p) == {o \in V : side[o].price < p}
<1>1. V \in SUBSET DOMAIN side /\ \A o \in V : side[o].price \in Nat
  BY DEF Valid, IsCounted
<1>2. \A S \in SUBSET DOMAIN side : UnitsOf(side, S) \in Nat
  BY UnitsAddUp
<1>3. \A S \in SUBSET DOMAIN side : \A T \in SUBSET S : UnitsOf(side, T) <= UnitsOf(side, S)
  BY MoreOrdersMoreUnits
<1>4. Depth(side) \in Nat
  BY <1>1, <1>2 DEF Depth
<1>5. ASSUME NEW p \in Nat
      PROVE  /\ OfferedUpTo(side, p) \in Nat /\ OfferedBelow(side, p) \in Nat
             /\ OfferedBelow(side, p) <= OfferedUpTo(side, p)
             /\ OfferedUpTo(side, p) <= Depth(side)
  <2>1. upto(p) \in SUBSET V /\ below(p) \in SUBSET upto(p)
    BY <1>1
  <2>2. OfferedUpTo(side, p) = UnitsOf(side, upto(p)) /\ OfferedBelow(side, p) = UnitsOf(side, below(p))
        /\ Depth(side) = UnitsOf(side, V)
    BY DEF OfferedUpTo, OfferedBelow, Depth
  <2> HIDE DEF V, upto, below
  <2>3. upto(p) \in SUBSET DOMAIN side /\ below(p) \in SUBSET DOMAIN side
    BY <1>1, <2>1
  <2> QED
    BY <1>1, <1>2, <1>3, <2>1, <2>2, <2>3
<1>6. ASSUME NEW p \in Nat, NEW r \in Nat, p < r
      PROVE  OfferedUpTo(side, p) <= OfferedBelow(side, r)
  <2>1. upto(p) \in SUBSET below(r) /\ below(r) \in SUBSET V
    BY <1>1, <1>6
  <2>2. OfferedUpTo(side, p) = UnitsOf(side, upto(p)) /\ OfferedBelow(side, r) = UnitsOf(side, below(r))
    BY DEF OfferedUpTo, OfferedBelow
  <2> HIDE DEF V, upto, below
  <2>3. below(r) \in SUBSET DOMAIN side
    BY <1>1, <2>1
  <2> QED
    BY <1>3, <2>1, <2>2, <2>3
<1> QED
  BY <1>4, <1>5, <1>6

(* The price of the next unit, when q have been bought. *)
NextPrice(side, q) == Min({p \in PricesOf(side) : OfferedUpTo(side, p) > q})

(* It starts no later than at q and has not run out there. *)
LEMMA NextUnit ==
    ASSUME NEW side, IsCounted(side), Valid(side) # {}, NEW q \in Nat, q < Depth(side)
    PROVE  /\ NextPrice(side, q) \in PricesOf(side) /\ NextPrice(side, q) \in Nat
           /\ OfferedBelow(side, NextPrice(side, q)) <= q
           /\ OfferedUpTo(side, NextPrice(side, q)) > q
           /\ \A p \in PricesOf(side) : OfferedUpTo(side, p) > q => NextPrice(side, q) <= p
<1> DEFINE P == {p \in PricesOf(side) : OfferedUpTo(side, p) > q}
           n == NextPrice(side, q)
<1>1. /\ PricesOf(side) \subseteq Nat /\ Max(PricesOf(side)) \in PricesOf(side)
      /\ OfferedUpTo(side, Max(PricesOf(side))) = Depth(side)
  BY PricesOfSide
<1>2. P \subseteq Nat /\ P # {}
  BY <1>1
<1>3. n \in P /\ \A p \in P : n <= p
  BY <1>2, LeastPrice DEF NextPrice
<1>4. n \in PricesOf(side) /\ n \in Nat /\ OfferedUpTo(side, n) > q
      /\ \A p \in PricesOf(side) : OfferedUpTo(side, p) > q => n <= p
  BY <1>2, <1>3
<1> HIDE DEF n, P
<1>5. OfferedBelow(side, n) <= q
  <2> SUFFICES ASSUME OfferedBelow(side, n) > q PROVE FALSE
    BY <1>4, UnitsByPrice
  <2> DEFINE under == {o \in Valid(side) : side[o].price < n}
             S == {side[o].price : o \in under}
  <2>1. under # {}
    <3>1. UnitsOf(side, {}) = 0
      BY NoUnits
    <3>2. OfferedBelow(side, n) = UnitsOf(side, under)
      BY DEF OfferedBelow
    <3> HIDE DEF under
    <3>3. CASE under = {}
      BY <3>1, <3>2, <3>3
    <3> QED
      BY <3>3
  <2>2. S \subseteq PricesOf(side) /\ S # {} /\ \A p \in S : p < n
    BY <2>1 DEF PricesOf
  <2>3. IsFiniteSet(S) /\ S \subseteq Nat
    BY <1>1, <2>2, PricesOfSide, FS_Subset
  <2>4. Max(S) \in S /\ \A p \in S : p <= Max(S)
    BY <2>2, <2>3, GreatestPrice
  <2>5. OfferedUpTo(side, Max(S)) = OfferedBelow(side, n)
    <3> DEFINE m == Max(S)
    <3>1. m < n /\ m \in Nat
      BY <2>2, <2>3, <2>4
    <3>2. \A o \in Valid(side) : side[o].price \in Nat /\ (side[o].price < n => side[o].price <= m)
      BY <2>4 DEF Valid, IsCounted
    <3> HIDE DEF m
    <3>3. {o \in Valid(side) : side[o].price <= m} = under
      BY <1>4, <3>1, <3>2
    <3> QED
      BY <3>3 DEF OfferedUpTo, OfferedBelow, m
  <2>6. n <= Max(S)
    BY <1>4, <2>2, <2>4, <2>5
  <2> QED
    BY <1>4, <2>2, <2>3, <2>4, <2>6
<1> QED
  BY <1>4, <1>5 DEF n

(* What one more unit takes from each price. *)
LEMMA TakesOneMore ==
    ASSUME NEW side, IsCounted(side), NEW p \in Nat, NEW q \in Nat
    PROVE  /\ TakenAt(side, p, q) \in Nat
           /\ OfferedBelow(side, p) <= q /\ q < OfferedUpTo(side, p) =>
                  TakenAt(side, p, q + 1) = TakenAt(side, p, q) + 1
           /\ ~(OfferedBelow(side, p) <= q /\ q < OfferedUpTo(side, p)) =>
                  TakenAt(side, p, q + 1) = TakenAt(side, p, q)
           /\ TakenAt(side, p, 0) = 0
<1>1. /\ OfferedUpTo(side, p) \in Nat /\ OfferedBelow(side, p) \in Nat
      /\ OfferedBelow(side, p) <= OfferedUpTo(side, p)
  BY UnitsByPrice
<1> QED
  BY <1>1 DEF TakenAt, Least, Missing

(* One more unit costs the price of the next, until the side runs out. *)
LEMMA FillSteps ==
    ASSUME NEW side, IsCounted(side), Valid(side) # {}
    PROVE  /\ FillCost(side, 0) = 0
           /\ \A q \in Nat :
                 /\ FillCost(side, q) \in Nat
                 /\ q < Depth(side) => FillCost(side, q + 1) = FillCost(side, q) + NextPrice(side, q)
                 /\ q >= Depth(side) => FillCost(side, q + 1) = FillCost(side, q)
<1> DEFINE S == PricesOf(side)
           w(q) == [p \in S |-> p * TakenAt(side, p, q)]
<1>1. S \subseteq Nat /\ IsFiniteSet(S)
  BY PricesOfSide
<1>2. ASSUME NEW q \in Nat
      PROVE  /\ \A p \in S : TakenAt(side, p, q) \in Nat /\ w(q)[p] = p * TakenAt(side, p, q)
                             /\ w(q)[p] \in Nat
             /\ FillCost(side, q) = Sum(w(q), S)
  <2>1. \A p \in S : TakenAt(side, p, q) \in Nat
    BY <1>1, TakesOneMore
  <2> DEFINE v == w(q)
  <2>2. \A p \in S : v[p] = p * TakenAt(side, p, q)
    OBVIOUS
  <2> HIDE DEF v
  <2>3. FillCost(side, q) = Sum(v, S)
    BY <1>1, <2>2, FillIsASum
  <2>4. \A p \in S : v[p] \in Nat
    BY <1>1, <2>1, <2>2
  <2> QED
    BY <2>1, <2>2, <2>3, <2>4 DEF v
<1> HIDE DEF w
<1>3. FillCost(side, 0) = 0
  <2>1. \A p \in S : w(0)[p] = 0
    BY <1>1, <1>2, TakesOneMore
  <2> QED
    BY <1>1, <1>2, <2>1, SumOfNothing
<1>4. ASSUME NEW q \in Nat PROVE FillCost(side, q) \in Nat
  BY <1>1, <1>2, SumType
<1>5. ASSUME NEW q \in Nat, q < Depth(side)
      PROVE  FillCost(side, q + 1) = FillCost(side, q) + NextPrice(side, q)
  <2> DEFINE n == NextPrice(side, q)
             v == w(q)
             x == w(q + 1)
             R == S \ {n}
  <2>1. /\ n \in S /\ n \in Nat /\ OfferedBelow(side, n) <= q /\ OfferedUpTo(side, n) > q
    BY <1>5, NextUnit
  <2> HIDE DEF n
  <2>2. FillCost(side, q) = Sum(v, S) /\ FillCost(side, q + 1) = Sum(x, S)
        /\ (\A p \in S : v[p] \in Nat /\ x[p] \in Nat
               /\ v[p] = p * TakenAt(side, p, q) /\ x[p] = p * TakenAt(side, p, q + 1))
    BY <1>2
  <2> HIDE DEF v, x
  <2>3. \A p \in R : v[p] = x[p]
    <3> SUFFICES ASSUME NEW p \in R PROVE v[p] = x[p]
      OBVIOUS
    <3>1. p \in Nat /\ p # n /\ p \in S
      BY <1>1
    <3>2. /\ OfferedUpTo(side, p) \in Nat /\ OfferedBelow(side, p) \in Nat
          /\ OfferedUpTo(side, n) \in Nat /\ OfferedBelow(side, n) \in Nat
          /\ p < n => OfferedUpTo(side, p) <= OfferedBelow(side, n)
          /\ n < p => OfferedUpTo(side, n) <= OfferedBelow(side, p)
      BY <2>1, <3>1, UnitsByPrice
    <3>3. ~(OfferedBelow(side, p) <= q /\ q < OfferedUpTo(side, p))
      BY <2>1, <3>1, <3>2
    <3>4. TakenAt(side, p, q + 1) = TakenAt(side, p, q)
      BY <3>1, <3>3, TakesOneMore
    <3> QED
      BY <2>2, <3>1, <3>4
  <2>4. IsFiniteSet(R) /\ Sum(v, R) = Sum(x, R)
    <3>1. IsFiniteSet(R)
      BY <1>1, FS_Subset
    <3> HIDE DEF R
    <3> QED
      BY <2>3, <3>1, SumOfSame
  <2>5. Sum(v, R) \in Nat
    BY <2>2, <2>4, SumType
  <2>6. Sum(v, S) = v[n] + Sum(v, R) /\ Sum(x, S) = x[n] + Sum(x, R)
    BY <1>1, <2>1, <2>2, SumSplits
  <2>7. x[n] = v[n] + n
    <3>1. TakenAt(side, n, q + 1) = TakenAt(side, n, q) + 1 /\ TakenAt(side, n, q) \in Nat
      BY <2>1, TakesOneMore
    <3>2. v[n] = n * TakenAt(side, n, q) /\ x[n] = n * TakenAt(side, n, q + 1)
      BY <2>1, <2>2
    <3> QED
      BY <2>1, <3>1, <3>2
  <2> QED
    BY <2>1, <2>2, <2>4, <2>5, <2>6, <2>7 DEF n
<1>6. ASSUME NEW q \in Nat, q >= Depth(side)
      PROVE  FillCost(side, q + 1) = FillCost(side, q)
  <2>1. \A p \in S : w(q)[p] = w(q + 1)[p]
    <3> SUFFICES ASSUME NEW p \in S PROVE w(q)[p] = w(q + 1)[p]
      OBVIOUS
    <3>1. p \in Nat /\ OfferedUpTo(side, p) <= Depth(side) /\ OfferedUpTo(side, p) \in Nat
          /\ Depth(side) \in Nat
      BY <1>1, UnitsByPrice
    <3>2. TakenAt(side, p, q + 1) = TakenAt(side, p, q)
      BY <1>6, <3>1, TakesOneMore
    <3> QED
      BY <1>2, <3>2
  <2>2. Sum(w(q), S) = Sum(w(q + 1), S)
    BY <1>1, <2>1, SumOfSame
  <2> QED
    BY <1>2, <2>2
<1> QED
  BY <1>3, <1>4, <1>5, <1>6

(* No unit so far cost more than the next, and none more than the dearest offer. *)
LEMMA FillIsBounded ==
    ASSUME NEW side, IsCounted(side), Valid(side) # {}
    PROVE  \A q \in Nat :
               /\ q < Depth(side) => FillCost(side, q) <= NextPrice(side, q) * q
               /\ FillCost(side, q) <= Max(PricesOf(side)) * Depth(side)
<1> DEFINE S == PricesOf(side)
           D == Depth(side)
           C(q) == FillCost(side, q)
           N == {q \in Nat : /\ \A p \in S : OfferedUpTo(side, p) >= q => C(q) <= p * q
                             /\ C(q) <= Max(S) * D}
<1>1. /\ S \subseteq Nat /\ Max(S) \in Nat /\ D \in Nat /\ Max(S) \in S
      /\ OfferedUpTo(side, Max(S)) = D
      /\ \A p \in S : OfferedUpTo(side, p) \in Nat /\ OfferedUpTo(side, p) <= D
  BY PricesOfSide, UnitsByPrice
<1>2. /\ C(0) = 0
      /\ \A q \in Nat : /\ C(q) \in Nat
                        /\ q < D => C(q + 1) = C(q) + NextPrice(side, q)
                        /\ q >= D => C(q + 1) = C(q)
  BY FillSteps
<1>3. \A q \in Nat : q < D =>
          /\ NextPrice(side, q) \in S /\ NextPrice(side, q) \in Nat
          /\ OfferedUpTo(side, NextPrice(side, q)) > q
          /\ \A p \in S : OfferedUpTo(side, p) > q => NextPrice(side, q) <= p
  BY NextUnit
<1> HIDE DEF S, D, C
<1>4. 0 \in N
  <2>1. \A p \in Nat : p * 0 = 0
    OBVIOUS
  <2>2. Max(S) * D >= 0
    BY <1>1
  <2> QED
    BY <1>1, <1>2, <2>1, <2>2
<1>5. ASSUME NEW q \in Nat, q \in N PROVE q + 1 \in N
  <2>1. CASE q >= D
    <3>1. \A p \in S : ~(OfferedUpTo(side, p) >= q + 1)
      BY <1>1, <2>1
    <3> QED
      BY <1>2, <1>5, <2>1, <3>1
  <2>2. CASE q < D
    <3> DEFINE n == NextPrice(side, q)
    <3>1. C(q + 1) = C(q) + n /\ C(q) \in Nat /\ n \in Nat
      BY <1>2, <1>3, <2>2
    <3>2. \A p \in S : OfferedUpTo(side, p) >= q + 1 => C(q + 1) <= p * (q + 1)
      <4> SUFFICES ASSUME NEW p \in S, OfferedUpTo(side, p) >= q + 1 PROVE C(q + 1) <= p * (q + 1)
        OBVIOUS
      <4>1. p \in Nat /\ OfferedUpTo(side, p) \in Nat
        BY <1>1
      <4>2. n <= p /\ C(q) <= p * q
        BY <1>3, <1>5, <2>2, <4>1
      <4> HIDE DEF n
      <4>3. p * (q + 1) = p * q + p /\ p * q \in Nat
        BY <4>1
      <4> QED
        BY <3>1, <4>1, <4>2, <4>3
    <3>3. C(q + 1) <= Max(S) * (q + 1)
      BY <1>1, <2>2, <3>2
    <3>4. Max(S) * (q + 1) <= Max(S) * D
      <4> DEFINE m == Max(S)
      <4>1. PICK d \in Nat : D = q + 1 + d
        <5>1. D - (q + 1) \in Nat /\ D = q + 1 + (D - (q + 1))
          BY <1>1, <2>2
        <5> QED
          BY <5>1
      <4>2. m \in Nat
        BY <1>1
      <4> HIDE DEF m
      <4>3. m * D = m * (q + 1) + m * d /\ m * d \in Nat /\ m * (q + 1) \in Nat
        BY <4>1, <4>2
      <4> QED
        BY <4>3 DEF m
    <3>5. Max(S) * D \in Nat /\ Max(S) * (q + 1) \in Nat /\ C(q + 1) \in Nat
      BY <1>1, <1>2
    <3>6. C(q + 1) <= Max(S) * D
      BY <3>3, <3>4, <3>5
    <3> QED
      BY <3>2, <3>6
  <2> QED
    BY <1>1, <2>1, <2>2
<1> HIDE DEF N
<1>6. Nat \subseteq N
  BY <1>4, <1>5, SetInduction
<1> QED
  <2> SUFFICES ASSUME NEW q \in Nat
               PROVE  /\ q < D => C(q) <= NextPrice(side, q) * q
                      /\ C(q) <= Max(S) * D
    BY DEF S, D, C
  <2>1. q \in N
    BY <1>6
  <2>2. ASSUME q < D PROVE C(q) <= NextPrice(side, q) * q
    <3>1. NextPrice(side, q) \in S /\ OfferedUpTo(side, NextPrice(side, q)) >= q
      BY <1>1, <1>3, <2>2
    <3> QED
      BY <2>1, <3>1 DEF N
  <2> QED
    BY <2>1, <2>2 DEF N

----------------------------------------------------------------------------
(* The arithmetic of the average *)

(* The average of a fill times 20 * q * q (Vwap) grows while the side lasts, *)
LEMMA AveragesGrow ==
    ASSUME NEW q \in Nat, NEW c \in Nat, NEW n \in Nat, c <= n * q
    PROVE  (20 * q * c) * (q + 1) * (q + 1) <= (20 * (q + 1) * (c + n)) * q * q
<1> DEFINE r == q + 1
           d == n * q - c
<1>1. d \in Nat /\ n * q = c + d
  BY SMT
<1>2. q * (c + n) = r * c + d
  <2>1. q * (c + n) = q * c + n * q
    OBVIOUS
  <2>2. r * c = q * c + c
    OBVIOUS
  <2> HIDE DEF d
  <2> QED
    BY <1>1, <2>1, <2>2
<1>3. (20 * r * (c + n)) * q * q = 20 * r * q * (q * (c + n))
  OBVIOUS
<1>4. 20 * r * q * (r * c + d) = 20 * r * q * (r * c) + 20 * r * q * d
  <2> HIDE DEF d
  <2> QED
    BY <1>1
<1>5. 20 * r * q * (r * c) = (20 * q * c) * r * r
  OBVIOUS
<1>6. 20 * r * q * d \in Nat /\ (20 * q * c) * r * r \in Nat
  <2> HIDE DEF d
  <2> QED
    BY <1>1
<1> HIDE DEF d, r
<1> QED
  BY <1>2, <1>3, <1>4, <1>5, <1>6 DEF r

(* and beyond it. *)
LEMMA DeficitsGrow ==
    ASSUME NEW D \in Nat, NEW L \in Nat, NEW m \in Nat, NEW c \in Nat, c <= m * D
    PROVE  LET q == D + L
               r == q + 1
           IN  (20 * q * c + L * m * (20 * q + L)) * r * r
                   <= (20 * r * c + (L + 1) * m * (20 * r + (L + 1))) * q * q
<1> DEFINE q == D + L
           r == q + 1
           d == m * D - c
           K == (L + 1) * q + L * r
           low == (20 * q * c + L * m * (20 * q + L)) * r * r
           high == (20 * r * c + (L + 1) * m * (20 * r + (L + 1))) * q * q
<1>1. d \in Nat /\ m * D = c + d
  BY SMT
<1>2. q \in Nat /\ r \in Nat /\ K \in Nat
  BY SMT
<1>3. high = low + 20 * r * q * (m * D - c) + m * D * K
  BY SMT
<1>4. low \in Nat /\ 20 * r * q * d \in Nat /\ m * D * K \in Nat
  <2> HIDE DEF d, q, r, K
  <2> QED
    BY <1>1, <1>2
<1> HIDE DEF low, high, K, r, q
<1>5. low <= high
  BY <1>3, <1>4
<1> QED
  BY <1>5 DEF low, high, q, r

(* Buying more never gets cheaper per unit. *)
LEMMA FillingGetsDearer ==
    ASSUME NEW side, IsCounted(side), Valid(side) # {}, NEW q \in Nat \ {0}
    PROVE  ~CheaperPerUnit(Vwap(side, q + 1), q + 1, Vwap(side, q), q)
<1> DEFINE D == Depth(side)
           c == FillCost(side, q)
           m == Max(PricesOf(side))
<1>1. /\ D \in Nat /\ c \in Nat /\ m \in Nat /\ c <= m * D
      /\ q < D => /\ NextPrice(side, q) \in Nat /\ c <= NextPrice(side, q) * q
                 /\ FillCost(side, q + 1) = c + NextPrice(side, q)
      /\ q >= D => FillCost(side, q + 1) = c
  BY PricesOfSide, UnitsByPrice, NextUnit, FillSteps, FillIsBounded
<1>2. CASE q < D
  <2> DEFINE n == NextPrice(side, q)
  <2>1. Missing(q, D) = 0 /\ Missing(q + 1, D) = 0
    BY <1>1, <1>2 DEF Missing
  <2>2. Vwap(side, q) = 20 * q * c /\ Vwap(side, q + 1) = 20 * (q + 1) * (c + n)
    <3>1. /\ Vwap(side, q) = 20 * q * c + 0 * m * (20 * q + 0)
          /\ Vwap(side, q + 1) = 20 * (q + 1) * (c + n) + 0 * m * (20 * (q + 1) + 0)
      BY <1>1, <1>2, <2>1 DEF Vwap
    <3> HIDE DEF m, c, n, D
    <3> QED
      BY <1>1, <1>2, <3>1 DEF n
  <2>3. (20 * q * c) * (q + 1) * (q + 1) <= (20 * (q + 1) * (c + n)) * q * q
    BY <1>1, <1>2, AveragesGrow
  <2> HIDE DEF m, c, n, D
  <2>4. n \in Nat
    BY <1>1, <1>2 DEF n
  <2>5. (20 * q * c) * (q + 1) * (q + 1) \in Int /\ (20 * (q + 1) * (c + n)) * q * q \in Int
    BY <1>1, <2>4
  <2> QED
    BY <2>2, <2>3, <2>5 DEF CheaperPerUnit
<1>3. CASE q >= D
  <2> DEFINE L == q - D
  <2>1. L \in Nat /\ q = D + L /\ Missing(q, D) = L /\ Missing(q + 1, D) = L + 1
    BY <1>1, <1>3 DEF Missing
  <2>2. /\ Vwap(side, q) = 20 * q * c + L * m * (20 * q + L)
        /\ Vwap(side, q + 1) = 20 * (q + 1) * c + (L + 1) * m * (20 * (q + 1) + (L + 1))
    BY <1>1, <1>3, <2>1 DEF Vwap
  <2> HIDE DEF m, c, D, L
  <2>3. (20 * q * c + L * m * (20 * q + L)) * (q + 1) * (q + 1)
            <= (20 * (q + 1) * c + (L + 1) * m * (20 * (q + 1) + (L + 1))) * q * q
    BY <1>1, <2>1, DeficitsGrow
  <2>4. /\ (20 * q * c + L * m * (20 * q + L)) * (q + 1) * (q + 1) \in Int
        /\ (20 * (q + 1) * c + (L + 1) * m * (20 * (q + 1) + (L + 1))) * q * q \in Int
    BY <1>1, <2>1
  <2> QED
    BY <2>2, <2>3, <2>4 DEF CheaperPerUnit
<1> QED
  BY <1>1, <1>2, <1>3

----------------------------------------------------------------------------
(* What the books promise of their prices *)

(* A side of a book, and what is unexpired of it, are finite. *)
LEMMA SidesAreCounted ==
    ASSUME NEW side, IsSide(side)
    PROVE  IsCounted(side) /\ \A t : IsCounted(Unexpired(side, t))
<1>1. IsCounted(side)
  BY OrderAssumption DEF IsSide, IsCounted, Order
<1>2. ASSUME NEW t PROVE IsCounted(Unexpired(side, t))
  <2> DEFINE left == {x \in DOMAIN side : side[x].expires = Never \/ side[x].expires > t}
  <2>1. IsFiniteSet(left)
    BY <1>1, FS_Subset DEF IsCounted
  <2>2. DOMAIN Unexpired(side, t) = left /\ \A o \in left : Unexpired(side, t)[o] = side[o]
    BY DEF Unexpired
  <2> QED
    BY <1>1, <2>1, <2>2 DEF IsCounted
<1> QED
  BY <1>1, <1>2

(* Whatever the orders of a book, a larger quantity never costs less per unit, *)
(* also where the book runs out and the deficit is extrapolated               *)
(* (get_vwap_for_quantity).                                                   *)
THEOREM LargerFillsCostMore == Spec => []VwapGrowsWithQuantity
<1>1. Init => Inv
  BY DEF Init, Inv, Shape, BooksTyped, MetricsExact
<1>2. Inv /\ [Next]_vars => Inv'
  BY Step
<1>3. Inv => VwapGrowsWithQuantity
  <2> SUFFICES ASSUME Inv, NEW k \in DOMAIN books,
                      Valid(Unexpired(books[k].offers, now)) # {},
                      NEW q \in 1..Depth(Unexpired(books[k].offers, now)) + 2
               PROVE  LET side == Unexpired(books[k].offers, now)
                      IN  ~CheaperPerUnit(Vwap(side, q + 1), q + 1, Vwap(side, q), q)
    BY DEF VwapGrowsWithQuantity
  <2> DEFINE side == Unexpired(books[k].offers, now)
  <2>1. IsCounted(side)
    BY SidesAreCounted DEF Inv, BooksTyped, Typed
  <2>2. q \in Nat \ {0}
    <3>1. Depth(side) \in Nat
      BY <2>1, UnitsByPrice
    <3> QED
      BY <3>1
  <2> HIDE DEF side
  <2> QED
    BY <2>1, <2>2, FillingGetsDearer DEF side
<1> QED
  BY <1>1, <1>2, <1>3, PTL DEF Spec

(* Whatever the orders and the anti bait volume: offers that come to fewer     *)
(* units do not pull the true sell price of a book below its cheapest offer    *)
(* (_recalculate_lob_metrics).                                                 *)
THEOREM BaitIsIgnored == Spec => BaitIgnored
<1> DEFINE Ignored == \A k \in DOMAIN books \cap DOMAIN books' :
                         LET old == books[k].offers
                             new == books'[k].offers
                         IN  /\ DOMAIN old \subseteq DOMAIN new
                             /\ \A o \in DOMAIN old : new[o] = old[o]
                             /\ Depth(old) >= MinVolume[k]
                             /\ Depth(new) - Depth(old) < MinVolume[k]
                             => books'[k].metrics.true_sell >= TopSell(old)
<1>1. Init => Inv
  BY DEF Init, Inv, Shape, BooksTyped, MetricsExact
<1>2. Inv /\ [Next]_vars => Inv'
  BY Step
<1>3. ASSUME Inv, Inv' PROVE Ignored
  <2> SUFFICES ASSUME NEW k \in DOMAIN books, k \in DOMAIN books',
                      DOMAIN books[k].offers \subseteq DOMAIN books'[k].offers,
                      \A o \in DOMAIN books[k].offers : books'[k].offers[o] = books[k].offers[o],
                      Depth(books[k].offers) >= MinVolume[k],
                      Depth(books'[k].offers) - Depth(books[k].offers) < MinVolume[k]
               PROVE  books'[k].metrics.true_sell >= TopSell(books[k].offers)
    OBVIOUS
  <2> DEFINE old == books[k].offers
             new == books'[k].offers
  <2>1. IsSide(old) /\ IsSide(new) /\ MinVolume[k] \in Nat
    BY <1>3, OrderAssumption DEF Inv, BooksTyped, Typed, IsSide, Order
  <2>2. IsCounted(old) /\ IsCounted(new)
    <3> HIDE DEF old, new
    <3> QED
      BY <2>1, SidesAreCounted
  <2>3. new # <<>>
    <3> SUFFICES ASSUME new = <<>> PROVE FALSE
      OBVIOUS
    <3>1. Valid(new) = {} /\ Valid(old) = {}
      BY DEF Valid
    <3>2. Depth(new) = 0 /\ Depth(old) = 0
      BY <3>1, NoUnits DEF Depth
    <3> QED
      BY <2>1, <3>2
  <2>4. books'[k].metrics.true_sell = TrueSell(new, MinVolume[k])
    <3>1. books'[k].metrics = Metrics(new, books'[k].requests, MinVolume[k])
      BY <1>3, <2>3 DEF Inv, MetricsExact
    <3> QED
      BY <3>1 DEF Metrics
  <2>5. TrueSell(new, MinVolume[k]) >= TopSell(old)
    <3> HIDE DEF old, new
    <3>1. /\ DOMAIN old \subseteq DOMAIN new /\ \A o \in DOMAIN old : new[o] = old[o]
          /\ Depth(old) >= MinVolume[k] /\ Depth(new) - Depth(old) < MinVolume[k]
      BY DEF old, new
    <3> QED
      BY <2>1, <2>2, <3>1, BaitIsSeenThrough
  <2> QED
    BY <2>4, <2>5
<1>4. Inv /\ [Next]_vars => [Ignored]_vars
  BY <1>2, <1>3
<1> QED
  BY <1>1, <1>2, <1>4, PTL DEF Spec, BaitIgnored
=============================================================================
