--------------------------- MODULE CumBufferLemmas ---------------------------
(***************************************************************************)
(* What the methods of CumBuffer do to the unread bytes, for every buffer  *)
(* that is well formed (BufferOK), whatever its length and wherever its    *)
(* read and write positions are.                                           *)
(***************************************************************************)
EXTENDS CumBuffer, SequenceTheorems, TLAPS

\* c has the unread bytes of b and, behind them, those of d.
Extends(b, c, d) ==
  /\ c.cumulated_len = b.cumulated_len + Len(d)
  /\ \A i \in 0 .. b.cumulated_len - 1 :
        c.buffer_ptr[Cell(c, i)] = b.buffer_ptr[Cell(b, i)]
  /\ \A i \in 0 .. Len(d) - 1 :
        c.buffer_ptr[Cell(c, b.cumulated_len + i)] = d[i + 1]

\* c has the unread bytes of b but for the first n.
Drops(b, c, n) ==
  /\ c.cumulated_len = b.cumulated_len - n
  /\ \A i \in 0 .. c.cumulated_len - 1 :
        c.buffer_ptr[Cell(c, i)] = b.buffer_ptr[Cell(b, n + i)]

SameKind(b, c) == c.is_infinite_buffer = b.is_infinite_buffer

-----------------------------------------------------------------------------
(* The unread bytes are a sequence of as many bytes as cumulated_len_ says. *)
LEMMA ContentIsSeq ==
  ASSUME NEW b, BufferOK(b), NEW S,
         \A i \in 0 .. b.cumulated_len - 1 : b.buffer_ptr[Cell(b, i)] \in S
  PROVE  Content(b) \in Seq(S) /\ Len(Content(b)) = b.cumulated_len
<1>1. b.cumulated_len \in Nat  BY DEF BufferOK, Positions
<1>2. \A i \in 1 .. b.cumulated_len : b.buffer_ptr[Cell(b, i - 1)] \in S
  BY <1>1
<1>3. Content(b) \in [1 .. b.cumulated_len -> S]  BY <1>2 DEF Content
<1> QED  BY <1>1, <1>3

(* A buffer that has the bytes of another and more behind them holds the    *)
(* concatenation.                                                           *)
LEMMA ExtendsContent ==
  ASSUME NEW b, BufferOK(b), NEW c, BufferOK(c), NEW S, NEW d \in Seq(S),
         Content(b) \in Seq(S), Extends(b, c, d)
  PROVE  Content(c) = Content(b) \o d
<1> DEFINE m == b.cumulated_len
           n == Len(d)
           s == Content(b) \o d
<1>1. m \in Nat /\ n \in Nat /\ c.cumulated_len = m + n
  BY DEF BufferOK, Positions, Extends
<1>2. DOMAIN Content(b) = 1 .. m  BY DEF Content
<1>3. Len(Content(b)) = m  BY <1>1, <1>2
<1>4. /\ s \in Seq(S) /\ Len(s) = m + n
      /\ \A i \in 1 .. m + n : s[i] = IF i <= m THEN Content(b)[i] ELSE d[i - m]
  BY <1>1, <1>3, ConcatProperties
<1>5. \A i \in 1 .. m + n : Content(c)[i] = s[i]
  <2> TAKE i \in 1 .. m + n
  <2>1. Content(c)[i] = c.buffer_ptr[Cell(c, i - 1)]  BY <1>1 DEF Content
  <2>2. CASE i <= m
    <3>1. i - 1 \in 0 .. m - 1 /\ i \in 1 .. m  BY <1>1, <2>2
    <3>2. Content(b)[i] = b.buffer_ptr[Cell(b, i - 1)]  BY <3>1 DEF Content
    <3> QED  BY <1>4, <2>1, <2>2, <3>1, <3>2 DEF Extends
  <2>3. CASE ~(i <= m)
    <3>1. i - 1 - m \in 0 .. n - 1  BY <1>1, <2>3
    <3>2. c.buffer_ptr[Cell(c, m + (i - 1 - m))] = d[i - 1 - m + 1]
      BY <3>1 DEF Extends
    <3>3. m + (i - 1 - m) = i - 1 /\ i - 1 - m + 1 = i - m  BY <1>1
    <3> QED  BY <1>4, <2>1, <2>3, <3>2, <3>3
  <2> QED  BY <2>2, <2>3
<1> HIDE DEF m, n, s
<1>6. s \in [1 .. m + n -> S]  BY <1>1, <1>4, LenProperties
<1>7. DOMAIN Content(c) = 1 .. m + n /\ Content(c) = [i \in 1 .. m + n |-> Content(c)[i]]
  BY <1>1 DEF Content
<1> QED  BY <1>5, <1>6, <1>7 DEF s
(* A buffer without the first n bytes of another holds the rest of them.    *)
LEMMA DropsContent ==
  ASSUME NEW b, BufferOK(b), NEW c, BufferOK(c), NEW S, Content(b) \in Seq(S),
         NEW n \in 0 .. b.cumulated_len, Drops(b, c, n)
  PROVE  Content(c) = SubSeq(Content(b), n + 1, Len(Content(b)))
<1> DEFINE m == b.cumulated_len
           s == SubSeq(Content(b), n + 1, Len(Content(b)))
<1>1. m \in Nat /\ n \in Nat /\ n <= m /\ c.cumulated_len = m - n
  BY DEF BufferOK, Positions, Drops
<1>2. DOMAIN Content(b) = 1 .. m  BY DEF Content
<1>3. Len(Content(b)) = m  BY <1>1, <1>2
<1>4. /\ s \in Seq(S) /\ Len(s) = m - n
      /\ \A i \in 1 .. m - n : s[i] = Content(b)[n + i]
  <2>1. \A i \in n + 1 .. m : Content(b)[i] \in S
    BY <1>1, <1>3, ElementOfSeq
  <2> HIDE DEF m
  <2>2. SubSeq(Content(b), n + 1, m) \in Seq(S)
    BY <1>1, <2>1, SubSeqProperties
  <2>3. Len(SubSeq(Content(b), n + 1, m)) = m - n
    BY <1>1, <2>1, SubSeqProperties
  <2>4. \A i \in 1 .. m - (n + 1) + 1 :
           SubSeq(Content(b), n + 1, m)[i] = Content(b)[(n + 1) + i - 1]
    BY <1>1, <2>1, SubSeqProperties
  <2> QED  BY <1>1, <1>3, <2>2, <2>3, <2>4
<1>5. \A i \in 1 .. m - n : Content(c)[i] = s[i]
  <2> TAKE i \in 1 .. m - n
  <2>1. i - 1 \in 0 .. c.cumulated_len - 1 /\ n + i \in 1 .. m /\ n + (i - 1) = (n + i) - 1
    BY <1>1
  <2>2. Content(c)[i] = c.buffer_ptr[Cell(c, i - 1)]  BY <1>1 DEF Content
  <2>3. Content(b)[n + i] = b.buffer_ptr[Cell(b, (n + i) - 1)]  BY <2>1 DEF Content
  <2> QED  BY <1>4, <2>1, <2>2, <2>3 DEF Drops
<1> HIDE DEF m, s
<1>6. s \in [1 .. m - n -> S]  BY <1>1, <1>4, LenProperties
<1>7. DOMAIN Content(c) = 1 .. m - n /\ Content(c) = [i \in 1 .. m - n |-> Content(c)[i]]
  BY <1>1 DEF Content
<1> QED  BY <1>5, <1>6, <1>7 DEF s

-----------------------------------------------------------------------------
(* Append puts its bytes behind the unread ones: in one or in two pieces.   *)
LEMMA AppendInPlaceExtends ==
  ASSUME NEW b, BufferOK(b), NEW S, NEW d \in Seq(S),
         NEW c, c = AppendInPlace(b, d), Len(d) <= b.buffer_len, ~NoRoom(b, Len(d))
  PROVE  BufferOK(c) /\ Extends(b, c, d) /\ SameKind(b, c) /\ c.buffer_len = b.buffer_len
<1> DEFINE n == Len(d)
           L == b.buffer_len
           w == b.cur_write
           r == b.cur_read
           m == b.cumulated_len
<1>0. n \in Nat /\ n <= L  OBVIOUS
<1>1. Positions(L, r, w, m) /\ DOMAIN b.buffer_ptr = 0 .. L - 1  BY DEF BufferOK
<1>2. m # L  BY DEF NoRoom, IsFull
<1>3. CASE FitsAhead(b, n)
  <2>1. c = [b EXCEPT !.buffer_ptr    = Copy(@, w, d, 0, n),
                      !.cur_write     = @ + n,
                      !.cumulated_len = @ + n]
    BY <1>3 DEF AppendInPlace, CopyTo
  <2>2. /\ DOMAIN c = Members
        /\ c.buffer_ptr = Copy(b.buffer_ptr, w, d, 0, n)
        /\ c.cur_write = w + n
        /\ c.cumulated_len = m + n
        /\ c.buffer_len = L
        /\ c.cur_read = r
        /\ c.is_infinite_buffer = b.is_infinite_buffer
    BY <2>1 DEF BufferOK, Members
  <2>3. IF w < r THEN r - w >= n ELSE L >= w + n
    BY <1>3 DEF FitsAhead
  <2> HIDE DEF n, L, w, r, m
  <2>4. Positions(L, r, w + n, m + n)
    BY <1>0, <1>1, <1>2, <2>3 DEF Positions
  <2>5. DOMAIN c.buffer_ptr = 0 .. L - 1
    BY <1>1, <2>2 DEF Copy
  <2>6. BufferOK(c)  BY <2>2, <2>4, <2>5 DEF BufferOK
  <2>7. ASSUME NEW i \in 0 .. m - 1
        PROVE  c.buffer_ptr[Cell(c, i)] = b.buffer_ptr[Cell(b, i)]
    <3>1. /\ Cell(c, i) = IF r + i < L THEN r + i ELSE r + i - L
          /\ Cell(b, i) = Cell(c, i)
      BY <2>2 DEF Cell, L, r
    <3>2. Cell(c, i) \in 0 .. L - 1 /\ ~(w <= Cell(c, i) /\ Cell(c, i) < w + n)
      BY <1>0, <1>1, <1>2, <2>3, <3>1 DEF Positions
    <3> QED  BY <1>1, <2>2, <3>1, <3>2 DEF Copy
  <2>8. ASSUME NEW i \in 0 .. n - 1
        PROVE  c.buffer_ptr[Cell(c, m + i)] = d[i + 1]
    <3>1. Cell(c, m + i) = IF r + (m + i) < L THEN r + (m + i) ELSE r + (m + i) - L
      BY <2>2 DEF Cell
    <3>2. Cell(c, m + i) = w + i /\ w + i \in 0 .. L - 1
      BY <1>0, <1>1, <1>2, <2>3, <3>1 DEF Positions
    <3>3. w <= w + i /\ w + i < w + n /\ 0 + (w + i) - w + 1 = i + 1
      BY <1>0, <1>1 DEF Positions
    <3> QED  BY <1>1, <2>2, <3>2, <3>3 DEF Copy
  <2> QED  BY <2>2, <2>6, <2>7, <2>8 DEF Extends, SameKind, n, m, L
<1>4. CASE ~FitsAhead(b, n)
  <2> DEFINE k == L - w
  <2>1. c = [b EXCEPT !.buffer_ptr    = Copy(Copy(@, w, d, 0, k), 0, d, k, n - k),
                      !.cur_write     = n - k,
                      !.cumulated_len = @ + n]
    BY <1>4 DEF AppendInPlace
  <2>2. /\ DOMAIN c = Members
        /\ c.buffer_ptr = Copy(Copy(b.buffer_ptr, w, d, 0, k), 0, d, k, n - k)
        /\ c.cur_write = n - k
        /\ c.cumulated_len = m + n
        /\ c.buffer_len = L
        /\ c.cur_read = r
        /\ c.is_infinite_buffer = b.is_infinite_buffer
    BY <2>1 DEF BufferOK, Members
  <2>3. w >= r /\ w + n > L /\ n - k <= r
    <3>1. FitsSplit(b, n)  BY <1>4 DEF NoRoom
    <3>2. w >= r /\ n - k <= r  BY <3>1 DEF FitsSplit
    <3>3. ~(IF w < r THEN r - w >= n ELSE L >= w + n)  BY <1>4 DEF FitsAhead
    <3> HIDE DEF n, L, w, r, m
    <3> QED  BY <1>0, <1>1, <3>2, <3>3 DEF Positions
  <2> HIDE DEF n, L, w, r, m
  <2>4. Positions(L, r, n - k, m + n)
    BY <1>0, <1>1, <1>2, <2>3 DEF Positions
  <2>5. DOMAIN c.buffer_ptr = 0 .. L - 1
    BY <1>1, <2>2 DEF Copy
  <2>6. BufferOK(c)  BY <2>2, <2>4, <2>5 DEF BufferOK
  <2>7. ASSUME NEW i \in 0 .. m - 1
        PROVE  c.buffer_ptr[Cell(c, i)] = b.buffer_ptr[Cell(b, i)]
    <3>1. /\ Cell(c, i) = IF r + i < L THEN r + i ELSE r + i - L
          /\ Cell(b, i) = Cell(c, i)
      BY <2>2 DEF Cell, L, r
    <3>2. /\ Cell(c, i) \in 0 .. L - 1
          /\ n - k <= Cell(c, i) /\ Cell(c, i) < w
      BY <1>0, <1>1, <1>2, <2>3, <3>1 DEF Positions
    <3> QED  BY <1>0, <1>1, <2>2, <3>1, <3>2 DEF Copy, Positions
  <2>8. ASSUME NEW i \in 0 .. n - 1
        PROVE  c.buffer_ptr[Cell(c, m + i)] = d[i + 1]
    <3>1. Cell(c, m + i) = IF r + (m + i) < L THEN r + (m + i) ELSE r + (m + i) - L
      BY <2>2 DEF Cell
    <3>2. Cell(c, m + i) = IF i < k THEN w + i ELSE i - k
      BY <1>0, <1>1, <1>2, <2>3, <3>1 DEF Positions
    <3>3. CASE i < k
      <4>1. w + i \in 0 .. L - 1 /\ ~(0 <= w + i /\ w + i < 0 + (n - k))
        BY SMTT(30), <1>0, <1>1, <1>2, <2>3, <3>3 DEF Positions
      <4>2. w <= w + i /\ w + i < w + k /\ 0 + (w + i) - w + 1 = i + 1
        BY <1>0, <1>1, <3>3 DEF Positions
      <4> QED  BY <1>1, <2>2, <3>2, <3>3, <4>1, <4>2 DEF Copy
    <3>4. CASE ~(i < k)
      <4>1. /\ i - k \in 0 .. L - 1 /\ 0 <= i - k /\ i - k < 0 + (n - k)
            /\ k + (i - k) - 0 + 1 = i + 1
        BY SMTT(30), <1>0, <1>1, <1>2, <2>3, <3>4 DEF Positions
      <4> QED  BY <1>1, <2>2, <3>2, <3>4, <4>1 DEF Copy
    <3> QED  BY <3>3, <3>4
  <2> QED  BY <2>2, <2>6, <2>7, <2>8 DEF Extends, SameKind, n, m, L
<1> QED  BY <1>3, <1>4

(* AUTO GROW 1 and 4: a block of twice the length, the bytes in their place. *)
LEMMA GrowInPlaceExtends ==
  ASSUME NEW b, BufferOK(b), NEW S, NEW d \in Seq(S), Len(d) <= b.buffer_len,
         GrowsInPlace(b), NEW c, c = GrowInPlace(b, d)
  PROVE  /\ BufferOK(c) /\ Extends(b, c, d) /\ SameKind(b, c)
         /\ c.buffer_len = 2 * b.buffer_len
<1> DEFINE n == Len(d)
           L == b.buffer_len
           w == b.cur_write
           r == b.cur_read
           m == b.cumulated_len
<1>0. n \in Nat /\ n <= L  OBVIOUS
<1>1. Positions(L, r, w, m)  BY DEF BufferOK
<1>2. r <= w /\ m = w - r
  BY <1>1 DEF GrowsInPlace, IsFull, Positions
<1>3. c = [b EXCEPT !.buffer_ptr    = Copy(Enlarged(@, L, 2 * L), w, d, 0, n),
                    !.buffer_len    = 2 * @,
                    !.cur_write     = @ + n,
                    !.cumulated_len = @ + n]
  BY DEF GrowInPlace, CopyTo
<1>4. /\ DOMAIN c = Members
      /\ c.buffer_ptr = Copy(Enlarged(b.buffer_ptr, L, 2 * L), w, d, 0, n)
      /\ c.buffer_len = 2 * L
      /\ c.cur_write = w + n
      /\ c.cumulated_len = m + n
      /\ c.cur_read = r
      /\ c.is_infinite_buffer = b.is_infinite_buffer
  BY <1>3 DEF BufferOK, Members
<1> HIDE DEF n, L, w, r, m
<1>5. Positions(2 * L, r, w + n, m + n)  BY <1>0, <1>1, <1>2 DEF Positions
<1>6. DOMAIN c.buffer_ptr = 0 .. 2 * L - 1  BY <1>4 DEF Copy, Enlarged
<1>7. BufferOK(c)  BY <1>4, <1>5, <1>6 DEF BufferOK
<1>8. ASSUME NEW i \in 0 .. m - 1
      PROVE  c.buffer_ptr[Cell(c, i)] = b.buffer_ptr[Cell(b, i)]
  <2>1. Cell(b, i) = r + i /\ Cell(c, i) = r + i
    <3>1. r + i < L /\ r + i < 2 * L  BY <1>1, <1>2 DEF Positions
    <3> QED  BY <1>4, <3>1 DEF Cell, L, r
  <2>2. r + i \in 0 .. 2 * L - 1 /\ r + i < L /\ ~(w <= r + i)
    BY <1>1, <1>2 DEF Positions
  <2> QED  BY <1>4, <2>1, <2>2 DEF Copy, Enlarged
<1>9. ASSUME NEW i \in 0 .. n - 1
      PROVE  c.buffer_ptr[Cell(c, m + i)] = d[i + 1]
  <2>1. r + (m + i) = w + i /\ w + i < 2 * L /\ w + i \in 0 .. 2 * L - 1
    BY <1>0, <1>1, <1>2 DEF Positions
  <2>2. Cell(c, m + i) = w + i  BY <1>4, <2>1 DEF Cell
  <2>3. w <= w + i /\ w + i < w + n /\ 0 + (w + i) - w + 1 = i + 1
    BY <1>0, <1>1 DEF Positions
  <2> QED  BY <1>4, <2>1, <2>2, <2>3 DEF Copy, Enlarged
<1> QED  BY <1>4, <1>7, <1>8, <1>9 DEF Extends, SameKind, n, m, L

(* AUTO GROW 2 and 3: the unread bytes wrap and are laid out straight.       *)
LEMMA GrowStraightExtends ==
  ASSUME NEW b, BufferOK(b), NEW S, NEW d \in Seq(S), Len(d) <= b.buffer_len,
         ~GrowsInPlace(b), NEW c, c = GrowStraight(b, d)
  PROVE  /\ BufferOK(c) /\ Extends(b, c, d) /\ SameKind(b, c)
         /\ c.buffer_len = 2 * b.buffer_len
<1> DEFINE n == Len(d)
           L == b.buffer_len
           w == b.cur_write
           r == b.cur_read
           m == b.cumulated_len
<1>0. n \in Nat /\ n <= L  OBVIOUS
<1>1. Positions(L, r, w, m)  BY DEF BufferOK
<1>2. w <= r /\ m = L - (r - w)
  BY <1>1 DEF GrowsInPlace, IsFull, Positions
<1>3. c = [b EXCEPT
             !.buffer_ptr    = Copy(Enlarged(Straightened(b), L, 2 * L), m, d, 0, n),
             !.buffer_len    = 2 * @,
             !.cur_write     = L + n - (r - w),
             !.cur_read      = 0,
             !.cumulated_len = @ + n]
  BY DEF GrowStraight, CopyTo
<1>4. /\ DOMAIN c = Members
      /\ c.buffer_ptr = Copy(Enlarged(Straightened(b), L, 2 * L), m, d, 0, n)
      /\ c.buffer_len = 2 * L
      /\ c.cur_write = L + n - (r - w)
      /\ c.cumulated_len = m + n
      /\ c.cur_read = 0
      /\ c.is_infinite_buffer = b.is_infinite_buffer
  BY <1>3 DEF BufferOK, Members
<1>5. Straightened(b) = [i \in 0 .. L - 1 |->
                           IF i < L - r THEN b.buffer_ptr[r + i]
                           ELSE IF i < (L - r) + w THEN b.buffer_ptr[i - (L - r)]
                           ELSE Junk]
  BY DEF Straightened
<1> HIDE DEF n, L, w, r, m
<1>6. Positions(2 * L, 0, L + n - (r - w), m + n)  BY <1>0, <1>1, <1>2 DEF Positions
<1>7. DOMAIN c.buffer_ptr = 0 .. 2 * L - 1  BY <1>4 DEF Copy, Enlarged
<1>8. BufferOK(c)  BY <1>4, <1>6, <1>7 DEF BufferOK
<1>9. ASSUME NEW i \in 0 .. m - 1
      PROVE  c.buffer_ptr[Cell(c, i)] = b.buffer_ptr[Cell(b, i)]
  <2>1. /\ i \in 0 .. 2 * L - 1 /\ i \in 0 .. L - 1 /\ i < L /\ ~(m <= i)
        /\ 0 + i < 2 * L /\ 0 + i = i
        /\ i < (L - r) + w
    BY <1>1, <1>2 DEF Positions
  <2>2. Cell(c, i) = i  BY <1>4, <2>1 DEF Cell
  <2>3. c.buffer_ptr[i] = Straightened(b)[i]  BY <1>4, <2>1 DEF Copy, Enlarged
  <2>4. Cell(b, i) = IF r + i < L THEN r + i ELSE r + i - L  BY DEF Cell, L, r
  <2>5. CASE i < L - r
    <3>1. r + i < L  BY <1>1, <2>5 DEF Positions
    <3> QED  BY <1>5, <2>1, <2>2, <2>3, <2>4, <2>5, <3>1
  <2>6. CASE ~(i < L - r)
    <3>1. ~(r + i < L) /\ i - (L - r) = r + i - L  BY <1>1, <2>6 DEF Positions
    <3> QED  BY <1>5, <2>1, <2>2, <2>3, <2>4, <2>6, <3>1
  <2> QED  BY <2>5, <2>6
<1>10. ASSUME NEW i \in 0 .. n - 1
       PROVE  c.buffer_ptr[Cell(c, m + i)] = d[i + 1]
  <2>1. /\ m + i \in 0 .. 2 * L - 1 /\ 0 + (m + i) < 2 * L /\ 0 + (m + i) = m + i
        /\ m <= m + i /\ m + i < m + n /\ 0 + (m + i) - m + 1 = i + 1
    BY <1>0, <1>1 DEF Positions
  <2>2. Cell(c, m + i) = m + i  BY <1>4, <2>1 DEF Cell
  <2> QED  BY <1>4, <2>1, <2>2 DEF Copy, Enlarged
<1> QED  BY <1>4, <1>8, <1>9, <1>10 DEF Extends, SameKind, n, m, L

(* Append, when it returns OP_RSLT_OK.                                       *)
LEMMA AppendedExtends ==
  ASSUME NEW b, BufferOK(b), NEW S, NEW d \in Seq(S),
         AppendResult(b, Len(d)) = OP_RSLT_OK, NEW c, c = Appended(b, d)
  PROVE  /\ BufferOK(c) /\ Extends(b, c, d) /\ SameKind(b, c)
         /\ c.buffer_len = IF NoRoom(b, Len(d)) THEN 2 * b.buffer_len ELSE b.buffer_len
<1>0. b.buffer_len \in Nat /\ Len(d) \in Nat  BY DEF BufferOK, Positions
<1>1. Len(d) <= b.buffer_len
  BY <1>0 DEF AppendResult, OP_RSLT_OK, OP_RSLT_INVALID_LEN
<1>2. CASE ~NoRoom(b, Len(d))
  BY <1>1, <1>2, AppendInPlaceExtends DEF Appended
<1>3. CASE NoRoom(b, Len(d)) /\ GrowsInPlace(b)
  BY <1>1, <1>3, GrowInPlaceExtends DEF Appended
<1>4. CASE NoRoom(b, Len(d)) /\ ~GrowsInPlace(b)
  BY <1>1, <1>4, GrowStraightExtends DEF Appended
<1> QED  BY <1>2, <1>3, <1>4

(* Append finds room, in one piece or in two, exactly when the free bytes    *)
(* suffice.                                                                  *)
LEMMA RoomIsFreeSpace ==
  ASSUME NEW b, BufferOK(b), NEW n \in Nat \ {0}, n <= b.buffer_len
  PROVE  NoRoom(b, n) <=> b.buffer_len - b.cumulated_len < n
<1> DEFINE L == b.buffer_len
           w == b.cur_write
           r == b.cur_read
           m == b.cumulated_len
<1>1. Positions(L, r, w, m) /\ n <= L  BY DEF BufferOK
<1>2. FitsAhead(b, n) <=> IF w < r THEN r - w >= n ELSE L >= w + n  BY DEF FitsAhead
<1>3. FitsSplit(b, n) <=> w >= r /\ w > 0 /\ n - (L - w) <= r  BY DEF FitsSplit
<1>4. NoRoom(b, n) <=> L = m \/ (~FitsAhead(b, n) /\ ~FitsSplit(b, n))
  BY DEF NoRoom, IsFull
<1> HIDE DEF L, w, r, m
<1>5. NoRoom(b, n) <=> L - m < n
  BY <1>1, <1>2, <1>3, <1>4 DEF Positions
<1> QED  BY <1>5 DEF L, m

-----------------------------------------------------------------------------
(* GetLinearAppendPtr may move the write position, never an unread byte.     *)
LEMMA LinearAppendPtrKeeps ==
  ASSUME NEW b, BufferOK(b), NEW c, c = LinearAppendPtr(b)
  PROVE  /\ BufferOK(c) /\ SameKind(b, c) /\ c.buffer_len = b.buffer_len
         /\ c.cumulated_len = b.cumulated_len /\ c.cur_read = b.cur_read
         /\ c.buffer_ptr = b.buffer_ptr /\ Content(c) = Content(b)
         /\ GetLinearFreeSpace(c) = GetLinearFreeSpace(b)
         /\ c.cur_write # c.buffer_len \/ IsFull(c)
<1> DEFINE L == b.buffer_len
           w == b.cur_write
           r == b.cur_read
           m == b.cumulated_len
<1>1. Positions(L, r, w, m)  BY DEF BufferOK
<1>2. CASE w = L /\ m # L
  <2>1. c = [b EXCEPT !.cur_write = 0]  BY <1>2 DEF LinearAppendPtr, IsFull
  <2>2. /\ DOMAIN c = Members
        /\ c.buffer_ptr = b.buffer_ptr
        /\ c.cur_write = 0
        /\ c.cumulated_len = m
        /\ c.buffer_len = L
        /\ c.cur_read = r
        /\ c.is_infinite_buffer = b.is_infinite_buffer
    BY <2>1 DEF BufferOK, Members
  <2>3. /\ GetLinearFreeSpace(b) = L - m
        /\ GetLinearFreeSpace(c) = IF 0 = L THEN L - m ELSE IF r > 0 THEN r - 0 ELSE L - 0
    BY <1>2, <2>2 DEF GetLinearFreeSpace
  <2> HIDE DEF L, w, r, m
  <2>4. Positions(L, r, 0, m) /\ r = L - m /\ 0 # L /\ r > 0
    BY <1>1, <1>2 DEF Positions
  <2>5. GetLinearFreeSpace(c) = GetLinearFreeSpace(b)  BY <1>1, <2>3, <2>4 DEF Positions
  <2>6. BufferOK(c)  BY <2>2, <2>4 DEF BufferOK, L
  <2>7. Content(c) = Content(b)  BY <2>2 DEF Content, Cell, L, m, r
  <2> QED  BY <2>2, <2>4, <2>5, <2>6, <2>7 DEF SameKind, L, m, r
<1>3. CASE ~(w = L /\ m # L)
  <2>1. c = b  BY <1>3 DEF LinearAppendPtr, IsFull
  <2> QED  BY <1>3, <2>1 DEF SameKind, IsFull
<1> QED  BY <1>2, <1>3

(* A direct write that stays within GetLinearFreeSpace appends to the unread *)
(* bytes, provided the buffer is not full when the space is asked for.       *)
LEMMA DirectlyWrittenExtends ==
  ASSUME NEW b, BufferOK(b), ~IsFull(b), NEW S, NEW d \in Seq(S),
         Len(d) <= GetLinearFreeSpace(b), NEW c, c = DirectlyWritten(b, d)
  PROVE  /\ BufferOK(c) /\ Extends(b, c, d) /\ SameKind(b, c)
         /\ c.buffer_len = b.buffer_len
<1> DEFINE p == LinearAppendPtr(b)
           n == Len(d)
           L == b.buffer_len
           w == p.cur_write
           r == b.cur_read
           m == b.cumulated_len
<1>0. n \in Nat  OBVIOUS
<1>1. /\ BufferOK(p) /\ SameKind(b, p) /\ p.buffer_len = L
      /\ p.cumulated_len = m /\ p.cur_read = r
      /\ p.buffer_ptr = b.buffer_ptr /\ Content(p) = Content(b)
      /\ GetLinearFreeSpace(p) = GetLinearFreeSpace(b)
      /\ w # L \/ m = L
  BY LinearAppendPtrKeeps DEF IsFull
<1>2. Positions(L, r, w, m) /\ m # L /\ w # L
  BY <1>1 DEF BufferOK, IsFull
<1>3. GetLinearFreeSpace(p) = IF r > w THEN r - w ELSE L - w
  BY <1>1, <1>2 DEF GetLinearFreeSpace
<1>4. n <= IF r > w THEN r - w ELSE L - w
  BY <1>1, <1>3
<1> HIDE DEF p
<1>5. c = [[p EXCEPT !.buffer_ptr = Copy(@, p.cur_write, d, 0, n)]
             EXCEPT !.cur_write = @ + n, !.cumulated_len = @ + n]
  BY DEF DirectlyWritten, IncreaseData, CopyTo, p
<1>6. /\ DOMAIN c = Members
      /\ c.buffer_ptr = Copy(b.buffer_ptr, w, d, 0, n)
      /\ c.cur_write = w + n
      /\ c.cumulated_len = m + n
      /\ c.buffer_len = L
      /\ c.cur_read = r
      /\ c.is_infinite_buffer = b.is_infinite_buffer
  BY <1>1, <1>5 DEF BufferOK, Members, SameKind
<1>7. DOMAIN b.buffer_ptr = 0 .. L - 1  BY DEF BufferOK
<1> HIDE DEF n, L, w, r, m
<1>8. Positions(L, r, w + n, m + n)
  BY <1>0, <1>2, <1>4 DEF Positions
<1>9. DOMAIN c.buffer_ptr = 0 .. L - 1  BY <1>6, <1>7 DEF Copy
<1>10. BufferOK(c)  BY <1>6, <1>8, <1>9 DEF BufferOK
<1>11. ASSUME NEW i \in 0 .. m - 1
       PROVE  c.buffer_ptr[Cell(c, i)] = b.buffer_ptr[Cell(b, i)]
  <2>1. /\ Cell(c, i) = IF r + i < L THEN r + i ELSE r + i - L
        /\ Cell(b, i) = Cell(c, i)
    BY <1>6 DEF Cell, L, r
  <2>2. Cell(c, i) \in 0 .. L - 1 /\ ~(w <= Cell(c, i) /\ Cell(c, i) < w + n)
    BY <1>0, <1>2, <1>4, <2>1 DEF Positions
  <2> QED  BY <1>6, <1>7, <2>1, <2>2 DEF Copy
<1>12. ASSUME NEW i \in 0 .. n - 1
       PROVE  c.buffer_ptr[Cell(c, m + i)] = d[i + 1]
  <2>1. Cell(c, m + i) = IF r + (m + i) < L THEN r + (m + i) ELSE r + (m + i) - L
    BY <1>6 DEF Cell
  <2>2. Cell(c, m + i) = w + i /\ w + i \in 0 .. L - 1
    BY <1>0, <1>2, <1>4, <2>1 DEF Positions
  <2>3. w <= w + i /\ w + i < w + n /\ 0 + (w + i) - w + 1 = i + 1
    BY <1>0, <1>2 DEF Positions
  <2> QED  BY <1>6, <1>7, <2>2, <2>3 DEF Copy
<1> QED  BY <1>6, <1>10, <1>11, <1>12 DEF Extends, SameKind, n, m, L

(* A buffer whose unread bytes start the block stays so under direct writes. *)
LEMMA DirectlyWrittenStraight ==
  ASSUME NEW b, BufferOK(b), ~IsFull(b), IsStraight(b), b.cur_read = 0,
         NEW S, NEW d \in Seq(S), NEW c, c = DirectlyWritten(b, d)
  PROVE  IsStraight(c) /\ c.cur_read = 0
<1>1. Positions(b.buffer_len, b.cur_read, b.cur_write, b.cumulated_len)  BY DEF BufferOK
<1>2. b.cur_write = b.cumulated_len /\ b.cur_write # b.buffer_len
  BY <1>1 DEF IsStraight, IsFull, Positions
<1>3. LinearAppendPtr(b) = b  BY <1>2 DEF LinearAppendPtr
<1>4. c = [[b EXCEPT !.buffer_ptr = CopyTo(@, b.cur_write, d)]
             EXCEPT !.cur_write = @ + Len(d), !.cumulated_len = @ + Len(d)]
  BY <1>3 DEF DirectlyWritten, IncreaseData
<1>5. /\ c.cur_write = b.cur_write + Len(d)
      /\ c.cumulated_len = b.cumulated_len + Len(d)
      /\ c.cur_read = 0
  BY <1>4 DEF BufferOK, Members
<1>6. Len(d) \in Nat  OBVIOUS
<1> QED  BY <1>1, <1>2, <1>5, <1>6 DEF IsStraight, Positions

(* There is linear space whenever the buffer is not full, and it is free.    *)
LEMMA LinearFreeSpaceIsFree ==
  ASSUME NEW b, BufferOK(b), ~IsFull(b)
  PROVE  GetLinearFreeSpace(b) \in 1 .. b.buffer_len - b.cumulated_len
<1> DEFINE L == b.buffer_len
           w == b.cur_write
           r == b.cur_read
           m == b.cumulated_len
<1>1. Positions(L, r, w, m) /\ m # L  BY DEF BufferOK, IsFull
<1>2. GetLinearFreeSpace(b) = IF w = L THEN L - m ELSE IF r > w THEN r - w ELSE L - w
  BY DEF GetLinearFreeSpace
<1> HIDE DEF L, w, r, m
<1>3. GetLinearFreeSpace(b) \in 1 .. L - m  BY <1>1, <1>2 DEF Positions
<1> QED  BY <1>3 DEF L, m

-----------------------------------------------------------------------------
(* PeekData, ConsumeData and GetData fail only for want of data: their own   *)
(* second check never refuses.                                               *)
LEMMA ReadResultIs ==
  ASSUME NEW b, BufferOK(b), NEW n \in Nat
  PROVE  ReadResult(b, n) = ValidateBuffer(b, n)
<1> DEFINE L == b.buffer_len
           w == b.cur_write
           r == b.cur_read
           m == b.cumulated_len
<1>1. Positions(L, r, w, m)  BY DEF BufferOK
<1>2. ReadsSplit(b, n) <=> w <= r /\ L < r + n  BY DEF ReadsSplit
<1>3. ValidateBuffer(b, n) = OP_RSLT_OK => m # 0 /\ ~(m < n)
  BY DEF ValidateBuffer, OP_RSLT_OK, OP_RSLT_NO_DATA, OP_RSLT_INVALID_LEN
<1> HIDE DEF L, w, r, m
<1>4. m # 0 /\ ~(m < n) =>
           /\ ~(w > r /\ w < r + n)
           /\ w <= r /\ L < r + n => w > 0 /\ w >= n - (L - r)
  BY <1>1 DEF Positions
<1>5. ValidateBuffer(b, n) = OP_RSLT_OK
        => /\ ~(b.cur_write > b.cur_read /\ b.cur_write < b.cur_read + n)
           /\ ReadsSplit(b, n) =>
                b.cur_write > 0 /\ b.cur_write >= n - (b.buffer_len - b.cur_read)
  BY <1>2, <1>3, <1>4 DEF L, w, r, m
<1> QED  BY <1>5 DEF ReadResult

(* ConsumeData drops the oldest bytes.                                       *)
LEMMA ConsumedDrops ==
  ASSUME NEW b, BufferOK(b), NEW n \in 0 .. b.cumulated_len, b.cumulated_len # 0,
         NEW c, c = Consumed(b, n)
  PROVE  /\ BufferOK(c) /\ Drops(b, c, n) /\ SameKind(b, c)
         /\ c.buffer_len = b.buffer_len
<1> DEFINE L == b.buffer_len
           w == b.cur_write
           r == b.cur_read
           m == b.cumulated_len
           q == IF ReadsSplit(b, n) THEN n - (L - r) ELSE r + n
<1>1. Positions(L, r, w, m) /\ DOMAIN b.buffer_ptr = 0 .. L - 1 /\ m # 0 /\ n \in 0 .. m
  BY DEF BufferOK
<1>2. ReadsSplit(b, n) <=> w <= r /\ L < r + n  BY DEF ReadsSplit
<1>3. c = [b EXCEPT !.cur_read = q, !.cumulated_len = @ - n]  BY DEF Consumed
<1>4. /\ DOMAIN c = Members
      /\ c.buffer_ptr = b.buffer_ptr
      /\ c.cur_write = w
      /\ c.cumulated_len = m - n
      /\ c.buffer_len = L
      /\ c.cur_read = q
      /\ c.is_infinite_buffer = b.is_infinite_buffer
  BY <1>3 DEF BufferOK, Members
<1>5. q = IF w <= r /\ L < r + n THEN n - (L - r) ELSE r + n  BY <1>2
<1> HIDE DEF L, w, r, m, q
<1>6. Positions(L, q, w, m - n)
  <2>1. CASE w <= r /\ L < r + n
    <3>1. q = n - (L - r)  BY <1>5, <2>1
    <3>2. m = L - (r - w)  BY <1>1, <2>1 DEF Positions
    <3> QED  BY <1>1, <2>1, <3>1, <3>2 DEF Positions
  <2>2. CASE ~(w <= r /\ L < r + n)
    <3>1. q = r + n  BY <1>5, <2>2
    <3> QED  BY <1>1, <2>2, <3>1 DEF Positions
  <2> QED  BY <2>1, <2>2
<1>7. BufferOK(c)  BY <1>1, <1>4, <1>6 DEF BufferOK
<1>8. ASSUME NEW i \in 0 .. m - n - 1
      PROVE  Cell(c, i) = Cell(b, n + i)
  <2>1. /\ Cell(c, i) = IF q + i < L THEN q + i ELSE q + i - L
        /\ Cell(b, n + i) = IF r + (n + i) < L THEN r + (n + i) ELSE r + (n + i) - L
    BY <1>4 DEF Cell, L, r
  <2> QED  BY <1>1, <1>5, <2>1 DEF Positions
<1> QED  BY <1>4, <1>7, <1>8 DEF Drops, SameKind, L, m

(* PeekData copies out the oldest bytes.                                     *)
LEMMA PeekedIsPrefix ==
  ASSUME NEW b, BufferOK(b), NEW n \in 0 .. b.cumulated_len
  PROVE  Peeked(b, n) = [i \in 1 .. n |-> Content(b)[i]]
<1> DEFINE L == b.buffer_len
           w == b.cur_write
           r == b.cur_read
           m == b.cumulated_len
<1>1. Positions(L, r, w, m) /\ n \in 0 .. m  BY DEF BufferOK
<1>2. ReadsSplit(b, n) <=> w <= r /\ L < r + n  BY DEF ReadsSplit
<1>3. ASSUME NEW i \in 1 .. n
      PROVE  Content(b)[i] = IF ReadsSplit(b, n) /\ i > b.buffer_len - b.cur_read
                             THEN b.buffer_ptr[i - 1 - (b.buffer_len - b.cur_read)]
                             ELSE b.buffer_ptr[b.cur_read + i - 1]
  <2>1. Cell(b, i - 1) = IF r + (i - 1) < L THEN r + (i - 1) ELSE r + (i - 1) - L
    BY DEF Cell
  <2>2. i \in 1 .. m  BY <1>1 DEF Positions
  <2>3. Content(b)[i] = b.buffer_ptr[Cell(b, i - 1)]  BY <2>2 DEF Content
  <2> HIDE DEF L, w, r, m
  <2>4. Cell(b, i - 1) = IF ReadsSplit(b, n) /\ i > L - r THEN i - 1 - (L - r)
                         ELSE r + i - 1
    BY <1>1, <1>2, <2>1 DEF Positions
  <2> QED  BY <2>3, <2>4 DEF L, r
<1> QED  BY <1>3 DEF Peeked

-----------------------------------------------------------------------------
(* A new buffer is well formed and empty; so is one after ReSet.             *)
LEMMA NewBufferIsEmpty ==
  ASSUME NEW n \in Nat \ {0}, NEW infinite \in BOOLEAN, NEW c, c = NewBuffer(n, infinite)
  PROVE  /\ BufferOK(c) /\ Content(c) = <<>> /\ c.cumulated_len = 0
         /\ c.buffer_len = n /\ c.is_infinite_buffer = infinite
<1>1. /\ DOMAIN c = Members /\ DOMAIN c.buffer_ptr = 0 .. n-1 /\ c.buffer_len = n
      /\ c.cumulated_len = 0 /\ c.cur_read = 0 /\ c.cur_write = 0
      /\ c.is_infinite_buffer = infinite
  BY DEF NewBuffer, Members
<1>2. Positions(n, 0, 0, 0)  BY DEF Positions
<1>3. Content(c) = <<>>  BY <1>1 DEF Content
<1> QED  BY <1>1, <1>2, <1>3 DEF BufferOK

LEMMA ReSetIsEmpty ==
  ASSUME NEW b, BufferOK(b), NEW c, c = ReSet(b)
  PROVE  /\ BufferOK(c) /\ Content(c) = <<>> /\ c.cumulated_len = 0
         /\ c.buffer_len = b.buffer_len /\ SameKind(b, c)
<1>1. /\ DOMAIN c = Members /\ c.buffer_ptr = b.buffer_ptr /\ c.buffer_len = b.buffer_len
      /\ c.cumulated_len = 0 /\ c.cur_read = 0 /\ c.cur_write = 0
      /\ c.is_infinite_buffer = b.is_infinite_buffer
  BY DEF ReSet, BufferOK, Members
<1>2. Positions(b.buffer_len, 0, 0, 0)  BY DEF Positions, BufferOK
<1>3. Content(c) = <<>>  BY <1>1 DEF Content
<1> QED  BY <1>1, <1>2, <1>3 DEF BufferOK, SameKind

(* IncreaseBufferAndCopyExisting keeps the unread bytes of a buffer in which *)
(* they lie straight.                                                        *)
LEMMA IncreasedKeeps ==
  ASSUME NEW b, BufferOK(b), IsStraight(b), NEW n \in Nat, b.buffer_len < n,
         NEW c, c = IncreaseBufferAndCopyExisting(b, n)
  PROVE  /\ BufferOK(c) /\ Content(c) = Content(b) /\ SameKind(b, c)
         /\ c.buffer_len = n /\ c.cumulated_len = b.cumulated_len
         /\ IsStraight(c) /\ c.cur_read = b.cur_read
<1> DEFINE L == b.buffer_len
           w == b.cur_write
           r == b.cur_read
           m == b.cumulated_len
<1>1. Positions(L, r, w, m) /\ w = r + m /\ L < n  BY DEF BufferOK, IsStraight
<1>2. c = [b EXCEPT !.buffer_ptr = Enlarged(@, L, n), !.buffer_len = n]
  BY DEF IncreaseBufferAndCopyExisting
<1>3. /\ DOMAIN c = Members
      /\ c.buffer_ptr = Enlarged(b.buffer_ptr, L, n)
      /\ c.cur_write = w
      /\ c.cumulated_len = m
      /\ c.buffer_len = n
      /\ c.cur_read = r
      /\ c.is_infinite_buffer = b.is_infinite_buffer
  BY <1>2 DEF BufferOK, Members
<1> HIDE DEF L, w, r, m
<1>4. Positions(n, r, w, m)  BY <1>1 DEF Positions
<1>5. DOMAIN c.buffer_ptr = 0 .. n - 1  BY <1>3 DEF Enlarged
<1>6. BufferOK(c)  BY <1>3, <1>4, <1>5 DEF BufferOK
<1>7. ASSUME NEW i \in 1 .. m
      PROVE  c.buffer_ptr[Cell(c, i - 1)] = b.buffer_ptr[Cell(b, i - 1)]
  <2>1. r + (i - 1) < L /\ r + (i - 1) < n /\ r + (i - 1) \in 0 .. n - 1
    BY <1>1 DEF Positions
  <2>2. Cell(b, i - 1) = r + (i - 1) /\ Cell(c, i - 1) = r + (i - 1)
    BY <1>3, <2>1 DEF Cell, L, r
  <2> QED  BY <1>3, <2>1, <2>2 DEF Enlarged
<1>8. Content(c) = Content(b)  BY <1>3, <1>7 DEF Content, m
<1> QED  BY <1>1, <1>3, <1>6, <1>8 DEF SameKind, IsStraight, m, r
=============================================================================
