---------------------------- MODULE XmodemProofs ----------------------------
(***************************************************************************)
(* Proofs about Xmodem, for every payload, byte width and retry limit: the *)
(* types on every line, and, on a line that has lost and delayed nothing   *)
(* so far, the order of what is stored.                                    *)
(***************************************************************************)
EXTENDS Xmodem, TLAPS, FiniteSetTheorems, SequenceTheorems, WellFoundedInduction

\* How many bytes of a block are in its buffer.
Partial ==
    /\ at = "data" => Len(buf) < BLOCK_SIZE
    /\ at = "csum" => Len(buf) = BLOCK_SIZE

TypeInv == TypeOK /\ Partial

\* The line has lost nothing so far, and no timeout was early.
Clean == losses = 0 /\ stalls = 0

\* What is stored are the first blocks of the payload, and the next one is asked for.
Stored ==
    /\ Len(dest) <= Len(Payload) /\ \A j \in 1 .. Len(dest) : dest[j] = Payload[j]
    /\ blk_num = (Len(dest) + 1) % M
    /\ attempt = 1
    /\ at # "end" => outcome = "none"
    /\ outcome = "accepted" => dest = Payload

\* How many bytes of the frame the loader has taken.
Taken ==
    CASE at = "first" -> 0
      [] at = "bn"    -> 1
      [] at = "bnc"   -> 2
      [] at = "data"  -> 3 + Len(buf)
      [] at = "csum"  -> 3 + BLOCK_SIZE

\* The loader has taken some of the frame of block k, and the rest is on the line.
Receiving(k) ==
    /\ at \in {"first", "bn", "bnc", "data", "csum"}
    /\ k \in DOMAIN Payload /\ k = Len(dest) + 1
    /\ Len(rx) = BLOCK_SIZE + 4 - Taken
    /\ \A j \in 1 .. Len(rx) : rx[j] = Frame(k)[Taken + j]
    /\ at \in {"bnc", "data", "csum"} => bn = k % M
    /\ at \in {"data", "csum"} =>
          bnc = Complement(k % M) /\ \A j \in 1 .. Len(buf) : buf[j] = Payload[k][j]

\* What is on the line for the loader.
LineOK ==
    \/ rx = <<>> /\ ~InBlock /\ (at = "verdict" => dest = Payload)
    \/ \E k \in DOMAIN Payload : Receiving(k)
    \/ rx = <<EOT>> /\ at = "first" /\ dest = Payload
    \/ rx = <<ACK>> /\ at = "verdict" /\ dest = Payload

\* The host and the loader take turns.
HostOK ==
    /\ host = "reply" =>
          \/ tx = <<NAK>> /\ rx = <<>> /\ at = "first" /\ dest = <<>> /\ cur = 1
          \/ tx = <<ACK>> /\ rx = <<>> /\ at = "first" /\ Len(dest) = cur
          \/ tx = <<>> /\ rx # <<>> /\ Len(dest) = cur - 1
    /\ host = "eot" =>
          /\ dest = Payload
          /\ \/ tx = <<>> /\ rx = <<EOT>> /\ at = "first"
             \/ tx = <<ACK>> /\ rx = <<>> /\ at = "verdict"
    /\ host = "done" => rx = <<>> /\ at = "verdict" /\ dest = Payload
    /\ host = "over" => dest = Payload /\ ((rx = <<ACK>> /\ at = "verdict") \/ (rx = <<>> /\ at = "end"))

InStep == Clean => ~cut /\ Stored /\ LineOK /\ HostOK
-----------------------------------------------------------------------------
\* A nonempty set of numbers has a least one.
LEMMA Least ==
    ASSUME NEW T \in SUBSET Nat, T # {}
    PROVE  \E n \in T : \A k \in T : n <= k
<1>1. PICK n \in T : \A k \in T : <<k, n>> \notin OpToRel(<, Nat)
  BY WFMin, NatLessThanWellFounded, Zenon
<1>2. \A k \in T : ~(k < n)
  BY <1>1, Zenon DEF OpToRel
<1>3. QED
  BY <1>2

LEMMA BytesShape ==
    /\ Bytes \subseteq Int /\ 0 \in Bytes /\ 1 \in Bytes
    /\ \A n \in Bytes : Complement(n) \in Bytes
<1>1. M \in Nat \ {0, 1}
  BY XmodemAssumption
<1>2. QED
  BY <1>1 DEF Bytes, Complement

\* What a byte counter shows is a byte.
LEMMA ModByte ==
    ASSUME NEW n \in Int
    PROVE  n % M \in Bytes
<1>1. M \in Nat \ {0}
  BY XmodemAssumption
<1>2. n % M \in 0 .. M - 1
  BY <1>1
<1>3. QED
  BY <1>2 DEF Bytes

\* The sums of the first bytes of a block, as its checksum adds them up (xmodem_receive).
IsSum(f, n, data) == f = [i \in 0 .. n |-> IF i = 0 THEN 0 ELSE (f[i - 1] + data[i]) % M]

LEMMA SumInBytes ==
    ASSUME NEW data \in Seq(Bytes), NEW n \in 0 .. Len(data), NEW f, IsSum(f, n, data)
    PROVE  \A i \in 0 .. n : f[i] \in Bytes
<1>1. SUFFICES ASSUME NEW bad, bad = {i \in 0 .. n : f[i] \notin Bytes}, bad # {}
               PROVE  FALSE
  OBVIOUS
<1>0. bad \in SUBSET Nat
  BY <1>1
<1>2. PICK i \in bad : \A k \in bad : i <= k
  BY <1>0, <1>1, Least
<1>3. i \in 0 .. n /\ f[i] = IF i = 0 THEN 0 ELSE (f[i - 1] + data[i]) % M
  BY <1>1 DEF IsSum
<1>4. i # 0
  <2>1. i = 0 => f[i] = 0
    BY <1>3
  <2>2. f[i] # 0
    BY <1>1, BytesShape
  <2>3. QED
    BY <2>1, <2>2
<1>5. f[i - 1] \in Bytes
  BY <1>1, <1>2, <1>3, <1>4
<1>6. data[i] \in Bytes
  BY <1>3, <1>4
<1>7. (f[i - 1] + data[i]) % M \in Bytes
  <2>1. PICK m, d : m = f[i - 1] /\ d = data[i]
    OBVIOUS
  <2>2. m \in Int /\ d \in Int
    BY <1>5, <1>6, <2>1, BytesShape
  <2>3. (m + d) % M \in Bytes
    BY <2>2, ModByte
  <2>4. QED
    BY <2>1, <2>3
<1>8. QED
  BY <1>1, <1>3, <1>4, <1>7

LEMMA SumExists ==
    ASSUME NEW data \in Seq(Bytes)
    PROVE  \E f : IsSum(f, Len(data), data)
<1>0. SUFFICES \A n \in 0 .. Len(data) : \E f : IsSum(f, n, data)
  OBVIOUS
<1>1. SUFFICES ASSUME NEW bad, bad = {n \in 0 .. Len(data) : ~ \E f : IsSum(f, n, data)}, bad # {}
               PROVE  FALSE
  OBVIOUS
<1>b. bad \in SUBSET Nat
  BY <1>1
<1>2. PICK n \in bad : \A k \in bad : n <= k
  BY <1>b, <1>1, Least
<1>3. CASE n = 0
  <2>1. PICK f : f = [i \in 0 .. 0 |-> 0]
    OBVIOUS
  <2>2. IsSum(f, n, data)
    BY <1>3, <2>1 DEF IsSum
  <2>3. QED
    BY <1>1, <2>2
<1>4. CASE n # 0
  <2>1. n - 1 \in 0 .. Len(data) /\ n - 1 \notin bad
    BY <1>1, <1>2, <1>4
  <2>2. PICK f : IsSum(f, n - 1, data)
    BY <1>1, <2>1
  <2>3. PICK g : g = [i \in 0 .. n |-> IF i = n THEN (f[n - 1] + data[n]) % M ELSE f[i]]
    OBVIOUS
  <2>4. ASSUME NEW i \in 0 .. n
        PROVE  g[i] = IF i = 0 THEN 0 ELSE (g[i - 1] + data[i]) % M
    <3>1. n \in Nat
      BY <1>1
    <3>2. CASE i = n
      BY <1>4, <2>3, <3>1, <3>2
    <3>3. CASE i # n
      <4>1. i \in 0 .. n - 1 /\ f[i] = IF i = 0 THEN 0 ELSE (f[i - 1] + data[i]) % M
        BY <2>2, <3>1, <3>3 DEF IsSum
      <4>2. g[i] = f[i] /\ (i # 0 => g[i - 1] = f[i - 1])
        BY <2>3, <3>1, <3>3
      <4>3. QED
        BY <4>1, <4>2
    <3>4. QED
      BY <3>2, <3>3
  <2>5. IsSum(g, n, data)
    BY <2>3, <2>4 DEF IsSum
  <2>6. QED
    BY <1>1, <2>5
<1>5. QED
  BY <1>3, <1>4

LEMMA ChecksumByte ==
    ASSUME NEW data \in Seq(Bytes)
    PROVE  Checksum(data) \in Bytes
<1>1. PICK f : f = CHOOSE g : IsSum(g, Len(data), data)
  OBVIOUS
<1>2. IsSum(f, Len(data), data)
  BY <1>1, SumExists
<1>3. Checksum(data) = f[Len(data)]
  BY <1>1 DEF Checksum, IsSum
<1>4. QED
  BY <1>2, <1>3, SumInBytes
-----------------------------------------------------------------------------
LEMMA OneMoreElement ==
    ASSUME NEW S, IsFiniteSet(S), NEW x, NEW T, T = S \cup {x}
    PROVE  IsFiniteSet(T) /\ Cardinality(T) \in Nat /\ Cardinality(T) <= Cardinality(S) + 1
<1>1. Cardinality(S) \in Nat
  BY FS_CardinalityType
<1>2. /\ IsFiniteSet(S \cup {x})
      /\ Cardinality(S \cup {x}) = Cardinality(S) \/ Cardinality(S \cup {x}) = Cardinality(S) + 1
  BY FS_AddElement, Zenon
<1>3. QED
  BY <1>1, <1>2

\* The five codes are five bytes, and a timeout is none.
LEMMA AtMostFour ==
    ASSUME NEW a, NEW b, NEW c, NEW d
    PROVE  Cardinality({a, b, c, d}) <= 4
<1>1. PICK one, two, three, four : one = {a} /\ two = {a, b} /\ three = {a, b, c} /\ four = {a, b, c, d}
  OBVIOUS
<1>2. two = one \cup {b} /\ three = two \cup {c} /\ four = three \cup {d}
  BY <1>1
<1>3. IsFiniteSet(one) /\ Cardinality(one) = 1
  BY <1>1, FS_Singleton
<1>4. IsFiniteSet(two) /\ Cardinality(two) \in Nat /\ Cardinality(two) <= 2
  <2>1. IsFiniteSet(two) /\ Cardinality(two) \in Nat /\ Cardinality(two) <= Cardinality(one) + 1
    BY <1>2, <1>3, OneMoreElement, Zenon
  <2>2. QED
    BY <1>3, <2>1
<1>5. IsFiniteSet(three) /\ Cardinality(three) \in Nat /\ Cardinality(three) <= 3
  <2>1. IsFiniteSet(three) /\ Cardinality(three) \in Nat /\ Cardinality(three) <= Cardinality(two) + 1
    BY <1>2, <1>4, OneMoreElement, Zenon
  <2>2. QED
    BY <1>4, <2>1
<1>6. Cardinality(four) <= 4
  <2>1. Cardinality(four) \in Nat /\ Cardinality(four) <= Cardinality(three) + 1
    BY <1>2, <1>5, OneMoreElement, Zenon
  <2>2. QED
    BY <1>5, <2>1
<1>7. QED
  BY <1>1, <1>6

LEMMA Codes ==
    /\ SOH \in Bytes /\ EOT \in Bytes /\ ACK \in Bytes /\ NAK \in Bytes /\ CAN \in Bytes
    /\ SOH \notin {EOT, ACK, NAK, CAN} /\ EOT \notin {ACK, NAK, CAN} /\ ACK \notin {NAK, CAN} /\ NAK # CAN
    /\ Timeout \notin Bytes
<1>1. Cardinality({SOH, EOT, ACK, NAK, CAN}) > 4
  BY XmodemAssumption
<1>2. ASSUME NEW a, NEW b, NEW c, NEW d, {SOH, EOT, ACK, NAK, CAN} = {a, b, c, d}
      PROVE  FALSE
  <2>1. Cardinality({a, b, c, d}) <= 4 /\ Cardinality({a, b, c, d}) = 5
    BY <1>2, AtMostFour, XmodemAssumption
  <2>2. QED
    BY <2>1
<1>3. SOH \notin {EOT, ACK, NAK, CAN}
  <2>1. SUFFICES ASSUME SOH \in {EOT, ACK, NAK, CAN} PROVE FALSE
    OBVIOUS
  <2>2. {SOH, EOT, ACK, NAK, CAN} = {EOT, ACK, NAK, CAN}
    BY <2>1
  <2>3. QED
    BY <1>2, <2>2
<1>4. EOT \notin {ACK, NAK, CAN}
  <2>1. SUFFICES ASSUME EOT \in {ACK, NAK, CAN} PROVE FALSE
    OBVIOUS
  <2>2. {SOH, EOT, ACK, NAK, CAN} = {SOH, ACK, NAK, CAN}
    BY <2>1
  <2>3. QED
    BY <1>2, <2>2
<1>5. ACK \notin {NAK, CAN}
  <2>1. SUFFICES ASSUME ACK \in {NAK, CAN} PROVE FALSE
    OBVIOUS
  <2>2. {SOH, EOT, ACK, NAK, CAN} = {SOH, EOT, NAK, CAN}
    BY <2>1
  <2>3. QED
    BY <1>2, <2>2
<1>6. NAK # CAN
  <2>1. SUFFICES ASSUME NAK = CAN PROVE FALSE
    OBVIOUS
  <2>2. {SOH, EOT, ACK, NAK, CAN} = {SOH, EOT, ACK, CAN}
    BY <2>1
  <2>3. QED
    BY <1>2, <2>2
<1>7. {SOH, EOT, ACK, NAK, CAN} \subseteq Bytes
  BY XmodemAssumption
<1>8. Timeout \notin Bytes
  BY DEF Timeout, Bytes
<1>9. QED
  BY <1>3, <1>4, <1>5, <1>6, <1>7, <1>8

\* The blocks of the payload have one length, and it is not 0.
LEMMA PayloadShape ==
    /\ BLOCK_SIZE \in Nat \ {0} /\ Len(Payload) \in Nat \ {0} /\ DOMAIN Payload = 1 .. Len(Payload)
    /\ \A k \in 1 .. Len(Payload) : Payload[k] \in Seq(Bytes) /\ Len(Payload[k]) = BLOCK_SIZE
<1>1. Payload \in Seq(Seq(Bytes)) /\ Payload # <<>>
  BY XmodemAssumption
<1>2. Len(Payload) \in Nat \ {0} /\ DOMAIN Payload = 1 .. Len(Payload)
  BY <1>1, EmptySeq
<1>3. \A k \in 1 .. Len(Payload) : Payload[k] \in Seq(Bytes)
  BY <1>1
<1>4. \A k \in 1 .. Len(Payload) : Len(Payload[k]) = BLOCK_SIZE
  BY <1>2, XmodemAssumption DEF BLOCK_SIZE
<1>5. Payload[1] \in Seq(Bytes) /\ Payload[1] # <<>>
  <2>1. 1 \in DOMAIN Payload /\ 1 \in 1 .. Len(Payload)
    BY <1>2
  <2>2. \A k \in DOMAIN Payload : Payload[k] # <<>>
    BY XmodemAssumption, Zenon
  <2>3. QED
    BY <1>3, <2>1, <2>2
<1>6. BLOCK_SIZE \in Nat \ {0}
  BY <1>5, EmptySeq DEF BLOCK_SIZE
<1>7. QED
  BY <1>2, <1>3, <1>4, <1>6

\* The next number of a wrapping counter.
LEMMA Remainder ==
    ASSUME NEW q \in Nat, NEW n \in 0 .. M - 1
    PROVE  (q * M + n) % M = n
<1>1. M \in Nat \ {0}
  BY XmodemAssumption
<1>2. PICK a : a = q * M + n
  OBVIOUS
<1>3. PICK d, m : d = a \div M /\ m = a % M
  OBVIOUS
<1>4. a \in Nat /\ d \in Nat /\ m \in 0 .. M - 1 /\ a = d * M + m
  BY <1>1, <1>2, <1>3
<1>5. CASE q = d
  BY <1>1, <1>2, <1>3, <1>4, <1>5
<1>6. CASE q > d
  <2>1. PICK e \in Nat : q = d + 1 + e
    <3>1. q - d - 1 \in Nat /\ q = d + 1 + (q - d - 1)
      BY <1>4, <1>6
    <3>2. QED
      BY <3>1
  <2>2. q * M = d * M + M + e * M /\ e * M \in Nat /\ d * M \in Nat
    BY <1>1, <1>4, <2>1
  <2>3. QED
    BY <1>1, <1>2, <1>4, <2>2
<1>7. CASE q < d
  <2>1. PICK e \in Nat : d = q + 1 + e
    <3>1. d - q - 1 \in Nat /\ d = q + 1 + (d - q - 1)
      BY <1>4, <1>7
    <3>2. QED
      BY <3>1
  <2>2. d * M = q * M + M + e * M /\ e * M \in Nat /\ q * M \in Nat
    BY <1>1, <1>4, <2>1
  <2>3. QED
    BY <1>1, <1>2, <1>4, <2>2
<1>8. QED
  BY <1>4, <1>5, <1>6, <1>7

LEMMA NextNumber ==
    ASSUME NEW k \in Nat
    PROVE  ((k % M) + 1) % M = (k + 1) % M
<1>1. M \in Nat \ {0, 1}
  BY XmodemAssumption
<1>2. PICK q, n : q = k \div M /\ n = k % M
  OBVIOUS
<1>3. q \in Nat /\ n \in 0 .. M - 1 /\ k = q * M + n
  BY <1>1, <1>2
<1>4. CASE n + 1 < M
  <2>1. n + 1 \in 0 .. M - 1 /\ k + 1 = q * M + (n + 1) /\ n + 1 = 0 * M + (n + 1)
    BY <1>1, <1>3, <1>4
  <2>2. (k + 1) % M = n + 1 /\ (n + 1) % M = n + 1
    BY <2>1, <1>3, Remainder
  <2>3. QED
    BY <1>2, <2>2
<1>5. CASE n + 1 = M
  <2>1. k + 1 = (q + 1) * M + 0 /\ n + 1 = 1 * M + 0 /\ 0 \in 0 .. M - 1
    BY <1>1, <1>3, <1>5
  <2>2. (k + 1) % M = 0 /\ (n + 1) % M = 0
    BY <2>1, <1>3, Remainder
  <2>3. QED
    BY <1>2, <2>2
<1>6. QED
  BY <1>1, <1>3, <1>4, <1>5

LEMMA FrameShape ==
    ASSUME NEW k \in 1 .. Len(Payload)
    PROVE  /\ Frame(k) \in Seq(Bytes) /\ Len(Frame(k)) = BLOCK_SIZE + 4
           /\ Frame(k)[1] = SOH /\ Frame(k)[2] = k % M /\ Frame(k)[3] = Complement(k % M)
           /\ \A j \in 1 .. BLOCK_SIZE : Frame(k)[3 + j] = Payload[k][j]
           /\ Frame(k)[BLOCK_SIZE + 4] = Checksum(Payload[k])
<1>1. PICK block : block = Payload[k]
  OBVIOUS
<1>2. block \in Seq(Bytes) /\ Len(block) = BLOCK_SIZE /\ BLOCK_SIZE \in Nat \ {0} /\ k \in Nat
  BY <1>1, PayloadShape
<1>3. PICK n : n = k % M
  OBVIOUS
<1>4. n \in Bytes /\ Complement(n) \in Bytes
  BY <1>2, <1>3, ModByte, BytesShape
<1>5. PICK sum : sum = Checksum(block) /\ sum \in Bytes
  BY <1>2, ChecksumByte
<1>6. PICK comp : comp = Complement(n) /\ comp \in Bytes
  BY <1>4
<1>7. PICK head : head = <<SOH, n, comp>>
  OBVIOUS
<1>8. head \in Seq(Bytes) /\ Len(head) = 3 /\ head[1] = SOH /\ head[2] = n /\ head[3] = comp
  BY <1>4, <1>6, <1>7, Codes
<1>9. PICK rest : rest = head \o block
  OBVIOUS
<1>10. /\ rest \in Seq(Bytes) /\ Len(rest) = 3 + BLOCK_SIZE
       /\ rest[1] = SOH /\ rest[2] = n /\ rest[3] = comp
       /\ \A j \in 1 .. BLOCK_SIZE : rest[3 + j] = block[j]
  <2>1. /\ rest \in Seq(Bytes) /\ Len(rest) = 3 + BLOCK_SIZE
        /\ \A j \in 1 .. 3 + BLOCK_SIZE : rest[j] = IF j <= 3 THEN head[j] ELSE block[j - 3]
    <3>1. /\ rest \in Seq(Bytes) /\ Len(rest) = Len(head) + Len(block)
          /\ \A j \in 1 .. Len(head) + Len(block) :
                rest[j] = IF j <= Len(head) THEN head[j] ELSE block[j - Len(head)]
      BY <1>2, <1>8, <1>9, ConcatProperties, Zenon
    <3>2. QED
      BY <1>2, <1>8, <3>1
  <2>2. \A j \in 1 .. 3 : rest[j] = head[j]
    BY <1>2, <2>1
  <2>3. ASSUME NEW j \in 1 .. BLOCK_SIZE PROVE rest[3 + j] = block[j]
    <3>1. rest[3 + j] = block[3 + j - 3]
      BY <1>2, <2>1
    <3>2. 3 + j - 3 = j
      BY <1>2
    <3>3. QED
      BY <3>1, <3>2
  <2>4. QED
    BY <1>8, <2>1, <2>2, <2>3
<1>11. Frame(k) = rest \o <<sum>>
  BY <1>1, <1>3, <1>5, <1>6, <1>7, <1>9 DEF Frame
<1>12. PICK whole : whole = Append(rest, sum)
  OBVIOUS
<1>13. whole \in Seq(Bytes) /\ Len(whole) = BLOCK_SIZE + 4 /\ whole[BLOCK_SIZE + 4] = sum
  BY <1>2, <1>5, <1>10, <1>12
<1>14. \A j \in 1 .. BLOCK_SIZE + 3 : whole[j] = rest[j]
  BY <1>2, <1>5, <1>10, <1>12
<1>15. Frame(k) = whole
  BY <1>5, <1>10, <1>11, <1>12
<1>16. /\ whole[1] = SOH /\ whole[2] = n /\ whole[3] = comp
       /\ \A j \in 1 .. BLOCK_SIZE : whole[3 + j] = block[j]
  BY <1>2, <1>10, <1>14
<1>17. QED
  BY <1>1, <1>3, <1>5, <1>6, <1>13, <1>15, <1>16
-----------------------------------------------------------------------------
\* A line stays a sequence of what it carries.
LEMMA Joined ==
    ASSUME NEW S, NEW s \in Seq(S), NEW t \in Seq(S)
    PROVE  s \o t \in Seq(S)
  BY ConcatProperties, Zenon

LEMMA Removed ==
    ASSUME NEW S, NEW s \in Seq(S), NEW i \in DOMAIN s
    PROVE  RemoveAt(s, i) \in Seq(S)
<1>1. i \in 1 .. Len(s) /\ Len(s) \in Nat
  OBVIOUS
<1>2. SubSeq(s, 1, i - 1) \in Seq(S)
  BY <1>1
<1>3. SubSeq(s, i + 1, Len(s)) \in Seq(S)
  BY <1>1
<1>4. QED
  BY <1>2, <1>3, Joined DEF RemoveAt

Received(c) ==
    /\ c \in Bytes \cup {Timeout} /\ rx' \in Seq(Bytes)
    /\ stalls' \in 0 .. Stalls /\ cut' \in BOOLEAN

LEMMA ReceiveType ==
    ASSUME TypeOK, NEW c, Receive(c)
    PROVE  Received(c)
<1> USE DEF Received, Receive, TypeOK
<1>1. CASE rx # <<>> /\ c = Head(rx) /\ rx' = Tail(rx) /\ UNCHANGED <<stalls, cut>>
  BY <1>1
<1>2. CASE /\ c = Timeout /\ rx' = rx /\ cut' = (cut \/ InBlock)
           /\ stalls' = stalls \/ (stalls < Stalls /\ stalls' = stalls + 1)
  <2>1. Stalls \in Nat
    BY XmodemAssumption
  <2>2. QED
    BY <1>2, <2>1
<1>3. QED
  BY <1>1, <1>2

LEMMA OneMoreType ==
    ASSUME NEW n \in 0 .. RETRY_MAX + 1
    PROVE  OneMore(n) \in 0 .. RETRY_MAX + 1
<1>1. RETRY_MAX \in Nat
  BY XmodemAssumption
<1>2. QED
  BY <1>1 DEF OneMore

\* The replies of the loader are codes.
LEMMA Replies ==
    ASSUME TypeOK, NEW c \in {ACK, NAK, CAN}
    PROVE  /\ tx \o <<c>> \in Seq({ACK, NAK, CAN})
           /\ tx \o <<c, c>> \in Seq({ACK, NAK, CAN})
<1>1. <<c>> \in Seq({ACK, NAK, CAN}) /\ <<c, c>> \in Seq({ACK, NAK, CAN}) /\ tx \in Seq({ACK, NAK, CAN})
  BY DEF TypeOK
<1>2. QED
  BY <1>1, Joined, Zenon

\* One byte or one timeout of xmodem_receive, or of the verdict, leaves its state well typed.
ReceiverType ==
    /\ at \in {"first", "bn", "bnc", "data", "csum", "verdict", "end"}
    /\ bn \in Bytes \cup {Timeout} /\ bnc \in Bytes
    /\ buf \in Seq(Bytes) /\ Len(buf) <= BLOCK_SIZE
    /\ blk_num \in Bytes /\ dest \in Seq(Seq(Bytes))
    /\ retries \in 0 .. RETRY_MAX + 1 /\ attempt \in 1 .. 2
    /\ outcome \in {"none", "accepted", "failed"} /\ heard \in Bytes \cup {Timeout}
    /\ tx \in Seq({ACK, NAK, CAN})
    /\ Partial

LEMMA FirstType ==
    ASSUME TypeInv, NEW c, Received(c), First(c)
    PROVE  ReceiverType'
<1> USE DEF TypeInv, TypeOK, Partial, ReceiverType, Received, Ended, GoOn, Put, AwaitBlock
<1>1. /\ tx \o <<NAK>> \in Seq({ACK, NAK, CAN}) /\ tx \o <<ACK>> \in Seq({ACK, NAK, CAN})
      /\ tx \o <<CAN, CAN>> \in Seq({ACK, NAK, CAN})
  BY Replies
<1>2. OneMore(retries) \in 0 .. RETRY_MAX + 1
  BY OneMoreType
<1>3. CASE FirstTimeout(c)
  BY <1>1, <1>2, <1>3 DEF FirstTimeout, blockVars
<1>4. CASE FirstByte(c)
  BY <1>1, <1>4 DEF First, FirstByte, blockVars
<1>5. QED
  BY <1>3, <1>4 DEF First

LEMMA NumbersType ==
    ASSUME TypeInv, NEW c, Received(c), Number(c) \/ NumberAgain(c)
    PROVE  ReceiverType'
<1> USE DEF TypeInv, TypeOK, Partial, ReceiverType, Received, Ended, GoOn, Put, AwaitBlock
<1>1. tx \o <<NAK>> \in Seq({ACK, NAK, CAN})
  BY Replies
<1>2. BLOCK_SIZE \in Nat \ {0}
  BY PayloadShape
<1>3. CASE Number(c)
  BY <1>3 DEF Number
<1>4. CASE NumberAgain(c) /\ Timeout \in {bn, c}
  BY <1>1, <1>4 DEF NumberAgain, blockVars
<1>5. CASE NumberAgain(c) /\ Timeout \notin {bn, c}
  BY <1>2, <1>5 DEF NumberAgain, blockVars
<1>6. QED
  BY <1>3, <1>4, <1>5

LEMMA DataType ==
    ASSUME TypeInv, NEW c, Received(c), Data(c)
    PROVE  ReceiverType'
<1> USE DEF TypeInv, TypeOK, Partial, ReceiverType, Received, Ended, GoOn, Put, AwaitBlock
<1>1. tx \o <<NAK>> \in Seq({ACK, NAK, CAN})
  BY Replies
<1>2. BLOCK_SIZE \in Nat \ {0}
  BY PayloadShape
<1>3. CASE c = Timeout
  BY <1>1, <1>3 DEF Data, blockVars
<1>4. CASE c # Timeout
  <2>1. Append(buf, c) \in Seq(Bytes) /\ Len(Append(buf, c)) = Len(buf) + 1 /\ Len(buf) \in Nat
    BY <1>4
  <2>2. /\ Len(buf) < BLOCK_SIZE /\ buf' = Append(buf, c)
        /\ at' = IF Len(buf) + 1 = BLOCK_SIZE THEN "csum" ELSE "data"
    BY <1>4 DEF Data
  <2>3. Partial' /\ Len(buf') <= BLOCK_SIZE
    BY <1>2, <2>1, <2>2
  <2>4. QED
    BY <1>4, <2>1, <2>2, <2>3 DEF Data
<1>5. QED
  BY <1>3, <1>4

LEMMA CsumType ==
    ASSUME TypeInv, NEW c, Received(c), Csum(c)
    PROVE  ReceiverType'
<1> USE DEF TypeInv, TypeOK, Partial, ReceiverType, Received, Ended, GoOn, Put, AwaitBlock
<1>1. tx \o <<NAK>> \in Seq({ACK, NAK, CAN}) /\ tx \o <<ACK>> \in Seq({ACK, NAK, CAN})
  BY Replies
<1>2. OneMore(retries) \in 0 .. RETRY_MAX + 1 /\ 0 \in 0 .. RETRY_MAX + 1
  BY OneMoreType, XmodemAssumption
<1>3. (blk_num + 1) % M \in Bytes
  BY ModByte, BytesShape
<1>4. CASE c = Timeout /\ AwaitBlock(<<NAK>>) /\ UNCHANGED <<dest, blk_num, retries>>
  BY <1>1, <1>4 DEF Csum, blockVars
<1>5. CASE Store
  BY <1>1, <1>2, <1>3, <1>5 DEF Csum, Store, blockVars
<1>6. CASE Refuse
  BY <1>1, <1>2, <1>6 DEF Csum, Refuse, blockVars
<1>7. QED
  BY <1>4, <1>5, <1>6 DEF Csum

LEMMA VerdictType ==
    ASSUME TypeInv, NEW c, Received(c), Verdict(c)
    PROVE  ReceiverType'
<1> USE DEF TypeInv, TypeOK, Partial, ReceiverType, Received, Ended, GoOn, Put
<1>1. tx \o <<NAK>> \in Seq({ACK, NAK, CAN})
  BY Replies
<1>2. 0 \in 0 .. RETRY_MAX + 1 /\ 1 \in Bytes
  <2>1. RETRY_MAX \in Nat
    BY XmodemAssumption
  <2>2. QED
    BY <2>1, BytesShape
<1>3. CASE Fresh /\ Put(<<NAK>>) /\ attempt' = 2 /\ GoOn
  BY <1>1, <1>2, <1>3 DEF Verdict, Fresh, blockVars
<1>4. CASE at' = "end" /\ UNCHANGED <<tx, blk_num, dest, retries, attempt>>
  BY <1>4 DEF Verdict, blockVars
<1>5. QED
  BY <1>3, <1>4 DEF Verdict

LEMMA LoaderType == TypeInv /\ Loader => TypeInv'
<1> SUFFICES ASSUME TypeInv, NEW c, Receive(c), UNCHANGED <<uboot, hostVars, losses>>,
                    First(c) \/ Number(c) \/ NumberAgain(c) \/ Data(c) \/ Csum(c) \/ Verdict(c)
             PROVE  TypeInv'
  BY DEF Loader
<1>1. Received(c)
  BY ReceiveType DEF TypeInv
<1>2. ReceiverType'
  BY <1>1, FirstType, NumbersType, DataType, CsumType, VerdictType
<1>3. QED
  BY <1>1, <1>2 DEF TypeInv, TypeOK, ReceiverType, Received, hostVars

\* What the host sends are bytes.
LEMMA SendType ==
    ASSUME TypeOK, NEW s \in Seq(Bytes), Send(s)
    PROVE  rx' \in Seq(Bytes)
<1>1. rx \o s \in Seq(Bytes)
  BY Joined DEF TypeOK
<1>2. QED
  BY <1>1 DEF Send

LEMMA CodeSent == <<EOT>> \in Seq(Bytes) /\ <<ACK>> \in Seq(Bytes) /\ <<NAK>> \in Seq(Bytes)
  BY Codes

HostType ==
    /\ host \in {"reply", "eot", "done", "over", "gone"} /\ cur \in DOMAIN Payload
    /\ rx \in Seq(Bytes) /\ tx \in Seq({ACK, NAK, CAN})

LEMMA HostReplyType ==
    ASSUME TypeOK, HostReply
    PROVE  HostType'
<1>1. tx' \in Seq({ACK, NAK, CAN})
  BY DEF HostReply, TypeOK
<1>2. cur \in 1 .. Len(Payload) /\ Len(Payload) \in Nat \ {0} /\ DOMAIN Payload = 1 .. Len(Payload)
  BY PayloadShape DEF TypeOK
<1>3. CASE host' = "gone" /\ UNCHANGED <<cur, rx>>
  BY <1>1, <1>3 DEF HostType, TypeOK
<1>4. CASE Send(Frame(cur)) /\ UNCHANGED hostVars
  <2>1. rx' \in Seq(Bytes)
    BY <1>2, <1>4, FrameShape, SendType
  <2>2. QED
    BY <1>1, <1>4, <2>1 DEF HostType, TypeOK, hostVars
<1>5. CASE host' = "eot" /\ Send(<<EOT>>) /\ UNCHANGED cur
  <2>1. rx' \in Seq(Bytes)
    BY <1>5, CodeSent, SendType
  <2>2. QED
    BY <1>1, <1>5, <2>1 DEF HostType, TypeOK
<1>6. CASE cur # Len(Payload) /\ cur' = cur + 1 /\ Send(Frame(cur + 1)) /\ UNCHANGED host
  <2>1. cur + 1 \in 1 .. Len(Payload)
    <3>1. PICK n, k : n = Len(Payload) /\ k = cur
      OBVIOUS
    <3>2. n \in Nat /\ k \in 1 .. n /\ k # n
      BY <1>2, <1>6, <3>1
    <3>3. QED
      BY <3>1, <3>2
  <2>2. rx' \in Seq(Bytes)
    BY <1>6, <2>1, FrameShape, SendType
  <2>3. QED
    BY <1>1, <1>2, <1>6, <2>1, <2>2 DEF HostType, TypeOK
<1>7. QED
  BY <1>3, <1>4, <1>5, <1>6 DEF HostReply

LEMMA HostEotType ==
    ASSUME TypeOK, HostEot
    PROVE  HostType'
<1>1. tx' \in Seq({ACK, NAK, CAN})
  BY DEF HostEot, TypeOK
<1>2. CASE Send(<<EOT>>) /\ UNCHANGED hostVars
  <2>1. rx' \in Seq(Bytes)
    BY <1>2, CodeSent, SendType
  <2>2. QED
    BY <1>1, <1>2, <2>1 DEF HostType, TypeOK, hostVars
<1>3. CASE host' \in {"gone", "done"} /\ UNCHANGED <<cur, rx>>
  BY <1>1, <1>3 DEF HostType, TypeOK
<1>4. QED
  BY <1>2, <1>3 DEF HostEot

LEMMA HostVerdictType ==
    ASSUME TypeOK, HostVerdict
    PROVE  HostType' /\ losses' \in 0 .. Losses
<1>1. Losses \in Nat /\ 1 \in DOMAIN Payload
  BY PayloadShape, XmodemAssumption
<1>2. losses' \in 0 .. Losses
  BY <1>1 DEF HostVerdict, TypeOK
<1>3. rx' \in Seq(Bytes)
  <2>1. Send(<<ACK>>) \/ Send(<<NAK>>)
    BY DEF HostVerdict
  <2>2. QED
    BY <2>1, CodeSent, SendType
<1>4. QED
  BY <1>1, <1>2, <1>3 DEF HostVerdict, HostType, TypeOK

\* Only what the loader does changes its own state.
LEMMA OthersType ==
    ASSUME TypeInv, UNCHANGED <<uboot, receiverVars>>, HostType',
           losses' \in 0 .. Losses, stalls' \in 0 .. Stalls, cut' \in BOOLEAN
    PROVE  TypeInv'
  BY DEF TypeInv, TypeOK, Partial, HostType, receiverVars, blockVars

LEMMA LineType == TypeInv /\ (LoseIn \/ LoseReply) => TypeInv'
<1> SUFFICES ASSUME TypeInv, LoseIn \/ LoseReply PROVE TypeInv'
  OBVIOUS
<1>1. Losses \in Nat
  BY XmodemAssumption
<1>2. losses' \in 0 .. Losses
  BY <1>1 DEF TypeInv, TypeOK, LoseIn, LoseReply
<1>3. CASE LoseIn
  <2>1. rx' \in Seq(Bytes)
    BY <1>3, Removed DEF LoseIn, TypeInv, TypeOK
  <2>2. HostType'
    BY <1>3, <2>1 DEF LoseIn, TypeInv, TypeOK, HostType, hostVars
  <2>3. QED
    BY <1>2, <1>3, <2>2, OthersType DEF LoseIn, TypeInv, TypeOK
<1>4. CASE LoseReply
  <2>1. tx' \in Seq({ACK, NAK, CAN})
    BY <1>4, Removed DEF LoseReply, TypeInv, TypeOK
  <2>2. HostType'
    BY <1>4, <2>1 DEF LoseReply, TypeInv, TypeOK, HostType, hostVars
  <2>3. QED
    BY <1>2, <1>4, <2>2, OthersType DEF LoseReply, TypeInv, TypeOK
<1>5. QED
  BY <1>3, <1>4

LEMMA TypeStep == TypeInv /\ [Next]_vars => TypeInv'
<1> SUFFICES ASSUME TypeInv, [Next]_vars PROVE TypeInv'
  OBVIOUS
<1>1. CASE Loader
  BY <1>1, LoaderType
<1>2. CASE HostStep
  <2>1. HostType' /\ losses' \in 0 .. Losses
    BY <1>2, HostReplyType, HostEotType, HostVerdictType DEF HostStep, TypeInv, TypeOK
  <2>2. QED
    BY <1>2, <2>1, OthersType DEF HostStep, TypeInv, TypeOK
<1>3. CASE Quit
  <2>1. HostType'
    BY <1>3 DEF Quit, HostQuit, HostType, TypeInv, TypeOK
  <2>2. QED
    BY <1>3, <2>1, OthersType DEF Quit, faultVars, TypeInv, TypeOK
<1>4. CASE LoseIn \/ LoseReply
  BY <1>4, LineType
<1>5. CASE UNCHANGED vars
  <2>1. UNCHANGED <<uboot, receiverVars>> /\ UNCHANGED <<hostVars, rx, tx, faultVars>>
    BY <1>5 DEF vars
  <2>2. HostType'
    BY <2>1 DEF HostType, TypeInv, TypeOK, hostVars
  <2>3. QED
    BY <2>1, <2>2, OthersType DEF faultVars, TypeInv, TypeOK
<1>6. QED
  BY <1>1, <1>2, <1>3, <1>4, <1>5 DEF Next

LEMMA TypeInit == Init => TypeInv
<1> SUFFICES ASSUME Init PROVE TypeInv
  OBVIOUS
<1>1. 1 \in DOMAIN Payload /\ BLOCK_SIZE \in Nat \ {0}
  BY PayloadShape
<1>2. /\ RETRY_MAX \in Nat /\ Losses \in Nat /\ Stalls \in Nat
  BY XmodemAssumption
<1>3. 0 \in Bytes /\ 1 \in Bytes
  BY BytesShape
<1>4. <<NAK>> \in Seq({ACK, NAK, CAN})
  OBVIOUS
<1>5. uboot \in BOOLEAN /\ cut \in BOOLEAN
  BY DEF Init
<1>6. QED
  BY <1>1, <1>2, <1>3, <1>4, <1>5 DEF Init, TypeInv, TypeOK, Partial

LEMMA TypeInvHolds == Spec => []TypeInv
<1>1. QED
  BY TypeInit, TypeStep, PTL DEF Spec

(***************************************************************************)
(* The loader, its host and the line between them keep to their types, on  *)
(* any line: no block outgrows its buffer, the retry counter stops above   *)
(* its limit, and the host never asks for a block past the last.           *)
(***************************************************************************)
THEOREM XmodemTypeCorrect == Spec => []TypeOK
<1>1. TypeInv => TypeOK
  BY DEF TypeInv
<1>2. QED
  BY <1>1, TypeInvHolds, PTL
-----------------------------------------------------------------------------
\* Budgets only grow.
LEMMA CleanBefore == TypeInv /\ [Next]_vars /\ Clean' => Clean
<1> SUFFICES ASSUME TypeInv, [Next]_vars, Clean' PROVE Clean
  OBVIOUS
<1>1. losses \in 0 .. Losses /\ stalls \in 0 .. Stalls
  BY DEF TypeInv, TypeOK
<1>2. (losses' = losses \/ losses' = losses + 1) /\ (stalls' = stalls \/ stalls' = stalls + 1)
  <2>1. CASE Loader
    BY <2>1 DEF Loader, Receive
  <2>2. CASE HostStep
    BY <2>2 DEF HostStep, HostVerdict
  <2>3. CASE Quit
    BY <2>3 DEF Quit, faultVars
  <2>4. CASE LoseIn \/ LoseReply
    BY <2>4 DEF LoseIn, LoseReply
  <2>5. CASE UNCHANGED vars
    BY <2>5 DEF vars, faultVars
  <2>6. QED
    BY <2>1, <2>2, <2>3, <2>4, <2>5 DEF Next
<1>3. QED
  BY <1>1, <1>2 DEF Clean

\* While a frame is being received, some of it is still on the line, and its block is not stored.
LEMMA StillReceiving ==
    ASSUME TypeInv, NEW k, Receiving(k)
    PROVE  /\ rx # <<>> /\ dest # Payload /\ k \in 1 .. Len(Payload) /\ Len(dest) = k - 1
           /\ Taken \in 0 .. BLOCK_SIZE + 3 /\ Len(rx) = BLOCK_SIZE + 4 - Taken
           /\ Head(rx) = Frame(k)[Taken + 1]
<1>1. BLOCK_SIZE \in Nat \ {0} /\ Len(Payload) \in Nat /\ k \in 1 .. Len(Payload) /\ k = Len(dest) + 1
  BY PayloadShape DEF Receiving
<1>2. Len(dest) \in Nat /\ Len(buf) \in Nat /\ rx \in Seq(Bytes)
  BY DEF TypeInv, TypeOK
<1>3. Taken \in 0 .. BLOCK_SIZE + 3
  <2>1. at \in {"first", "bn", "bnc", "data", "csum"} /\ (at = "data" => Len(buf) < BLOCK_SIZE)
    BY DEF Receiving, TypeInv, Partial
  <2>2. QED
    BY <1>1, <1>2, <2>1 DEF Taken
<1>4. Len(rx) = BLOCK_SIZE + 4 - Taken /\ \A j \in 1 .. Len(rx) : rx[j] = Frame(k)[Taken + j]
  BY DEF Receiving
<1>5. Len(rx) \in Nat \ {0}
  BY <1>1, <1>3, <1>4
<1>6. rx # <<>> /\ Head(rx) = rx[1]
  BY <1>2, <1>5
<1>7. Head(rx) = Frame(k)[Taken + 1]
  BY <1>4, <1>5, <1>6
<1>8. Len(dest) < Len(Payload)
  BY <1>1, <1>2
<1>9. QED
  BY <1>1, <1>2, <1>3, <1>4, <1>6, <1>7, <1>8

\* One byte more of the frame is taken, and the rest stays on the line.
LEMMA RestOnLine ==
    ASSUME TypeInv, NEW k, Receiving(k), rx' = Tail(rx), Taken' = Taken + 1
    PROVE  Len(rx') = BLOCK_SIZE + 4 - Taken' /\ \A j \in 1 .. Len(rx') : rx'[j] = Frame(k)[Taken' + j]
<1>1. /\ rx # <<>> /\ Taken \in 0 .. BLOCK_SIZE + 3 /\ Len(rx) = BLOCK_SIZE + 4 - Taken
      /\ BLOCK_SIZE \in Nat
  BY StillReceiving, PayloadShape
<1>2. rx \in Seq(Bytes) /\ Len(rx) \in Nat \ {0}
  BY <1>1 DEF TypeInv, TypeOK
<1>3. Len(rx') = Len(rx) - 1 /\ \A j \in 1 .. Len(rx) - 1 : rx'[j] = rx[j + 1]
  BY <1>1, <1>2
<1>4. \A j \in 1 .. Len(rx) : rx[j] = Frame(k)[Taken + j]
  BY DEF Receiving
<1>5. ASSUME NEW j \in 1 .. Len(rx') PROVE rx'[j] = Frame(k)[Taken' + j]
  <2>1. j \in 1 .. Len(rx) - 1 /\ j + 1 \in 1 .. Len(rx) /\ Taken + (j + 1) = Taken' + j
    BY <1>1, <1>2, <1>3
  <2>2. rx[j + 1] = Frame(k)[Taken + (j + 1)]
    BY <1>4, <2>1
  <2>3. QED
    BY <1>3, <2>1, <2>2
<1>6. QED
  BY <1>1, <1>2, <1>3, <1>5

\* A byte of the frame in front of the checksum.
Goes(k) == Receiving(k)' /\ UNCHANGED <<tx, dest, blk_num, attempt, outcome>>

LEMMA FrameStarts ==
    ASSUME TypeInv, NEW k, Receiving(k), NEW c, c = Head(rx), rx' = Tail(rx), First(c)
    PROVE  Goes(k)
<1>1. at = "first" /\ Taken = 0
  BY DEF First, Taken
<1>2. k \in 1 .. Len(Payload) /\ c = Frame(k)[1]
  BY <1>1, StillReceiving
<1>3. c = SOH /\ c # Timeout /\ c # EOT /\ c # CAN
  BY <1>2, FrameShape, Codes
<1>4. at' = "bn" /\ UNCHANGED <<tx, outcome, dest, blk_num, attempt>>
  BY <1>3 DEF First, FirstTimeout, FirstByte, GoOn
<1>5. Taken' = Taken + 1
  BY <1>1, <1>4 DEF Taken
<1>6. QED
  BY <1>4, <1>5, RestOnLine DEF Goes, Receiving

LEMMA NumberTaken ==
    ASSUME TypeInv, NEW k, Receiving(k), NEW c, c = Head(rx), rx' = Tail(rx), Number(c)
    PROVE  Goes(k)
<1>1. at = "bn" /\ Taken = 1 /\ at' = "bnc" /\ bn' = c /\ UNCHANGED <<tx, outcome, dest, blk_num, attempt>>
  BY DEF Number, Taken, GoOn
<1>2. k \in 1 .. Len(Payload) /\ c = Frame(k)[2]
  BY <1>1, StillReceiving
<1>3. bn' = k % M
  BY <1>1, <1>2, FrameShape
<1>4. Taken' = Taken + 1
  BY <1>1 DEF Taken
<1>5. QED
  BY <1>1, <1>3, <1>4, RestOnLine DEF Goes, Receiving

LEMMA ComplementTaken ==
    ASSUME TypeInv, NEW k, Receiving(k), NEW c, c = Head(rx), rx' = Tail(rx), NumberAgain(c)
    PROVE  Goes(k)
<1>1. at = "bnc" /\ Taken = 2 /\ bn = k % M
  BY DEF NumberAgain, Taken, Receiving
<1>2. k \in 1 .. Len(Payload) /\ c = Frame(k)[3]
  BY <1>1, StillReceiving
<1>3. c = Complement(k % M)
  BY <1>2, FrameShape
<1>4. k % M \in Bytes
  BY <1>2, ModByte, PayloadShape
<1>5. Timeout \notin {bn, c}
  BY <1>1, <1>3, <1>4, BytesShape, Codes
<1>6. at' = "data" /\ bnc' = c /\ buf' = <<>> /\ bn' = bn /\ UNCHANGED <<tx, outcome, dest, blk_num, attempt>>
  BY <1>5 DEF NumberAgain, GoOn
<1>7. Taken' = Taken + 1
  BY <1>1, <1>6 DEF Taken
<1>8. QED
  BY <1>1, <1>3, <1>6, <1>7, RestOnLine DEF Goes, Receiving

LEMMA DataTaken ==
    ASSUME TypeInv, NEW k, Receiving(k), NEW c, c = Head(rx), rx' = Tail(rx), Data(c)
    PROVE  Goes(k)
<1>1. at = "data" /\ Taken = 3 + Len(buf)
  BY DEF Data, Taken
<1>2. /\ BLOCK_SIZE \in Nat \ {0} /\ Len(buf) \in Nat /\ Len(buf) < BLOCK_SIZE /\ buf \in Seq(Bytes)
  BY <1>1, PayloadShape DEF TypeInv, TypeOK, Partial
<1>3. k \in 1 .. Len(Payload) /\ c = Frame(k)[4 + Len(buf)]
  <2>1. Taken + 1 = 4 + Len(buf)
    BY <1>1, <1>2
  <2>2. QED
    BY <2>1, StillReceiving
<1>4. Payload[k] \in Seq(Bytes) /\ Len(Payload[k]) = BLOCK_SIZE
  BY <1>3, PayloadShape
<1>5. c = Payload[k][Len(buf) + 1] /\ c \in Bytes
  <2>1. Len(buf) + 1 \in 1 .. BLOCK_SIZE /\ 3 + (Len(buf) + 1) = 4 + Len(buf)
    BY <1>2
  <2>2. QED
    <3>1. Frame(k)[3 + (Len(buf) + 1)] = Payload[k][Len(buf) + 1]
      BY <1>3, <2>1, FrameShape
    <3>2. QED
      BY <1>3, <1>4, <2>1, <3>1
<1>6. /\ buf' = Append(buf, c) /\ UNCHANGED <<bn, bnc>> /\ UNCHANGED <<tx, outcome, dest, blk_num, attempt>>
      /\ at' = IF Len(buf) + 1 = BLOCK_SIZE THEN "csum" ELSE "data"
  BY <1>5, Codes DEF Data, GoOn
<1>7. /\ Len(buf') = Len(buf) + 1 /\ \A j \in 1 .. Len(buf) : buf'[j] = buf[j]
      /\ buf'[Len(buf) + 1] = c
  BY <1>2, <1>5, <1>6
<1>8. \A j \in 1 .. Len(buf') : buf'[j] = Payload[k][j]
  <2>1. \A j \in 1 .. Len(buf) : buf[j] = Payload[k][j]
    BY <1>1 DEF Receiving
  <2>2. SUFFICES ASSUME NEW j \in 1 .. Len(buf) + 1 PROVE buf'[j] = Payload[k][j]
    BY <1>7
  <2>3. CASE j = Len(buf) + 1
    BY <1>5, <1>7, <2>3
  <2>4. CASE j # Len(buf) + 1
    <3>1. j \in 1 .. Len(buf)
      BY <1>2, <2>4
    <3>2. QED
      BY <1>7, <2>1, <3>1
  <2>5. QED
    BY <2>3, <2>4
<1>9. Taken' = Taken + 1
  BY <1>1, <1>2, <1>6, <1>7 DEF Taken
<1>10. bn = k % M /\ bnc = Complement(k % M)
  BY <1>1 DEF Receiving
<1>11. QED
  BY <1>6, <1>8, <1>9, <1>10, RestOnLine DEF Goes, Receiving

\* The block is whole, and stored.
LEMMA BlockStored ==
    ASSUME TypeInv, Stored, NEW k, Receiving(k), NEW c, c = Head(rx), rx' = Tail(rx), Csum(c)
    PROVE  /\ rx' = <<>> /\ at' = "first" /\ tx' = tx \o <<ACK>> /\ UNCHANGED <<attempt, outcome>>
           /\ Stored' /\ Len(dest') = k /\ dest' # <<>>
<1>1. at = "csum" /\ Taken = 3 + BLOCK_SIZE /\ Len(buf) = BLOCK_SIZE
  BY DEF Csum, Taken, TypeInv, Partial
<1>2. BLOCK_SIZE \in Nat \ {0} /\ buf \in Seq(Bytes)
  BY PayloadShape DEF TypeInv, TypeOK
<1>3. k \in 1 .. Len(Payload) /\ c = Frame(k)[BLOCK_SIZE + 4] /\ Len(dest) = k - 1 /\ Len(rx) = 1
  <2>1. Taken + 1 = BLOCK_SIZE + 4 /\ BLOCK_SIZE + 4 - Taken = 1
    BY <1>1, <1>2
  <2>2. QED
    BY <2>1, StillReceiving
<1>4. Payload[k] \in Seq(Bytes) /\ Len(Payload[k]) = BLOCK_SIZE
  BY <1>3, PayloadShape
<1>5. buf = Payload[k]
  <2>1. \A j \in 1 .. Len(buf) : buf[j] = Payload[k][j]
    BY <1>1 DEF Receiving
  <2>2. QED
    BY <1>1, <1>2, <1>4, <2>1
<1>6. c = Checksum(buf) /\ c \in Bytes
  BY <1>3, <1>4, <1>5, FrameShape, ChecksumByte
<1>7. k \in Nat /\ dest \in Seq(Seq(Bytes)) /\ Len(dest) + 1 = k
  BY <1>3, PayloadShape DEF TypeInv, TypeOK
<1>8. blk_num = k % M /\ bn = k % M /\ bnc = Complement(k % M)
  BY <1>1, <1>7 DEF Stored, Receiving
<1>9. Good(c)
  BY <1>6, <1>8 DEF Good
<1>10. Store /\ UNCHANGED attempt /\ GoOn
  BY <1>6, <1>9, Codes DEF Csum
<1>11. /\ at' = "first" /\ tx' = tx \o <<ACK>> /\ UNCHANGED <<attempt, outcome>>
       /\ dest' = Append(dest, Payload[k]) /\ blk_num' = ((k % M) + 1) % M
  BY <1>5, <1>8, <1>10 DEF Store, AwaitBlock, Put, GoOn
<1>12. /\ Len(dest') = k /\ \A j \in 1 .. k - 1 : dest'[j] = dest[j]
       /\ dest'[k] = Payload[k]
  BY <1>4, <1>7, <1>11
<1>13. Len(dest') <= Len(Payload) /\ \A j \in 1 .. Len(dest') : dest'[j] = Payload[j]
  <2>1. \A j \in 1 .. k - 1 : dest[j] = Payload[j]
    BY <1>3 DEF Stored
  <2>2. SUFFICES ASSUME NEW j \in 1 .. k PROVE dest'[j] = Payload[j]
    BY <1>3, <1>12
  <2>3. CASE j = k
    BY <1>12, <2>3
  <2>4. CASE j # k
    <3>1. j \in 1 .. k - 1
      BY <1>7, <2>4
    <3>2. QED
      BY <1>12, <2>1, <3>1
  <2>5. QED
    BY <2>3, <2>4
<1>14. ((k % M) + 1) % M = (k + 1) % M
  BY <1>7, NextNumber
<1>15. outcome = "none" /\ attempt = 1
  BY <1>1 DEF Stored
<1>16. Stored'
  BY <1>11, <1>12, <1>13, <1>14, <1>15 DEF Stored
<1>17. rx' = <<>>
  <2>1. rx \in Seq(Bytes)
    BY DEF TypeInv, TypeOK
  <2>2. QED
    BY <1>3, <2>1
<1>18. dest' # <<>>
  BY <1>7, <1>12
<1>19. QED
  BY <1>11, <1>12, <1>16, <1>17, <1>18

\* A byte of a frame: the host, if it is still there, waits for the reply to that block.
LEMMA FrameStep ==
    ASSUME TypeInv, TypeInv', Stored, HostOK, NEW k, Receiving(k), NEW c, c = Head(rx), rx' = Tail(rx),
           First(c) \/ Number(c) \/ NumberAgain(c) \/ Data(c) \/ Csum(c) \/ Verdict(c), UNCHANGED hostVars
    PROVE  Stored' /\ LineOK' /\ HostOK'
<1>1. /\ rx # <<>> /\ dest # Payload /\ k \in 1 .. Len(Payload) /\ Len(dest) = k - 1
      /\ at \in {"first", "bn", "bnc", "data", "csum"} /\ k \in DOMAIN Payload
  BY StillReceiving DEF Receiving
<1>2. host \in {"reply", "gone"} /\ (host = "reply" => tx = <<>> /\ Len(dest) = cur - 1)
  BY <1>1 DEF HostOK, TypeInv, TypeOK
<1>3. host' = host /\ cur' = cur
  BY DEF hostVars
<1>4. CASE Goes(k)
  <2>1. Receiving(k)' /\ UNCHANGED <<tx, dest, blk_num, attempt, outcome>>
    BY <1>4 DEF Goes
  <2>2. at' # "end" /\ outcome = "none"
    BY <1>1, <2>1 DEF Receiving, Stored
  <2>3. rx' # <<>>
    <3>1. Len(rx') # 0
      <4>1. /\ Len(rx') = BLOCK_SIZE + 4 - Taken' /\ at' \in {"first", "bn", "bnc", "data", "csum"}
            /\ BLOCK_SIZE \in Nat
        BY <2>1, PayloadShape DEF Receiving
      <4>2. at' = "data" => Len(buf') \in Nat /\ Len(buf') < BLOCK_SIZE
        BY DEF TypeInv, TypeOK, Partial
      <4>3. \/ Taken' \in {0, 1, 2, 3 + BLOCK_SIZE}
            \/ Taken' = 3 + Len(buf') /\ at' = "data"
        BY <4>1 DEF Taken
      <4>4. Taken' \in Nat /\ Taken' < BLOCK_SIZE + 4
        BY <4>1, <4>2, <4>3
      <4>5. PICK n, m : n = Len(rx') /\ m = Taken'
        OBVIOUS
      <4>6. n = BLOCK_SIZE + 4 - m /\ m \in Nat /\ m < BLOCK_SIZE + 4 /\ BLOCK_SIZE \in Nat
        BY <4>1, <4>4, <4>5
      <4>7. n # 0
        BY <4>6
      <4>8. QED
        BY <4>5, <4>7
    <3>2. QED
      BY <3>1
  <2>4. QED
    BY <1>1, <1>2, <1>3, <2>1, <2>2, <2>3 DEF Stored, LineOK, HostOK
<1>5. CASE Csum(c)
  <2>1. /\ rx' = <<>> /\ at' = "first" /\ tx' = tx \o <<ACK>> /\ Stored' /\ Len(dest') = k
    BY <1>5, BlockStored
  <2>2. host = "reply" => tx' = <<ACK>> /\ Len(dest') = cur
    <3>1. SUFFICES ASSUME host = "reply" PROVE tx' = <<ACK>> /\ Len(dest') = cur
      OBVIOUS
    <3>2. tx = <<>> /\ cur = k
      <4>1. cur \in 1 .. Len(Payload)
        BY PayloadShape DEF TypeInv, TypeOK
      <4>2. k \in Int /\ cur \in Int
        BY <1>1, <4>1
      <4>3. tx = <<>> /\ k - 1 = cur - 1
        BY <1>1, <1>2, <3>1
      <4>4. QED
        BY <4>2, <4>3
    <3>3. QED
      BY <2>1, <3>2
  <2>3. QED
    BY <1>2, <1>3, <2>1, <2>2 DEF LineOK, InBlock, HostOK
<1>6. QED
  BY <1>1, <1>4, <1>5, FrameStarts, NumberTaken, ComplementTaken, DataTaken DEF Verdict

\* The end of the transfer is told, and the image is whole.
LEMMA EndStep ==
    ASSUME TypeInv, Stored, HostOK, rx = <<EOT>>, at = "first", dest = Payload,
           First(EOT), rx' = <<>>, UNCHANGED hostVars
    PROVE  Stored' /\ LineOK' /\ HostOK'
<1>1. dest # <<>> /\ EOT \notin {Timeout, SOH, CAN}
  BY Codes, XmodemAssumption
<1>2. at' = "verdict" /\ tx' = tx \o <<ACK>> /\ UNCHANGED <<outcome, dest, blk_num, attempt>>
  BY <1>1 DEF First, FirstTimeout, FirstByte, Put, GoOn
<1>3. host \in {"eot", "gone"} /\ (host = "eot" => tx = <<>>)
  <2>1. rx # <<>>
    OBVIOUS
  <2>2. host # "reply"
    <3>1. SUFFICES ASSUME host = "reply" PROVE FALSE
      OBVIOUS
    <3>2. Len(Payload) = cur - 1
      BY <2>1, <3>1 DEF HostOK
    <3>3. QED
      BY <3>2, PayloadShape DEF TypeInv, TypeOK
  <2>3. QED
    BY <2>1, <2>2, Codes DEF HostOK, TypeInv, TypeOK
<1>4. host = "eot" => tx' = <<ACK>>
  BY <1>2, <1>3
<1>5. QED
  BY <1>2, <1>3, <1>4 DEF Stored, LineOK, InBlock, HostOK, hostVars

\* The verdict is that the image is good.
LEMMA AcceptStep ==
    ASSUME TypeInv, Stored, HostOK, at = "verdict", dest = Payload, NEW c, c # NAK, Verdict(c),
           \/ rx = <<ACK>>
           \/ rx = <<>> /\ host = "gone",
           rx' = <<>>, UNCHANGED hostVars
    PROVE  Stored' /\ LineOK' /\ HostOK'
<1>1. at' = "end" /\ outcome' = "accepted" /\ UNCHANGED <<tx, blk_num, dest, attempt>>
  BY DEF Verdict, Stored, Ended
<1>2. host \in {"over", "gone"}
  <2>1. host # "reply"
    <3>1. SUFFICES ASSUME host = "reply" PROVE FALSE
      OBVIOUS
    <3>2. Len(Payload) = cur - 1
      BY <3>1 DEF HostOK
    <3>3. QED
      BY <3>2, PayloadShape DEF TypeInv, TypeOK
  <2>2. rx = <<ACK>> => rx # <<>>
    OBVIOUS
  <2>3. host = "gone" \/ host \notin {"reply", "eot", "done"}
    BY <2>1, <2>2 DEF HostOK
  <2>4. QED
    BY <2>3 DEF TypeInv, TypeOK
<1>3. QED
  BY <1>1, <1>2 DEF Stored, LineOK, InBlock, HostOK, hostVars

\* No timeout strikes but when the host is gone and nothing is left on the line.
LEMMA TimeoutStep ==
    ASSUME TypeInv, Stored, LineOK, HostOK, rx = <<>>, HostSilent, ~VerdictDue,
           First(Timeout) \/ Number(Timeout) \/ NumberAgain(Timeout) \/ Data(Timeout) \/ Csum(Timeout)
              \/ Verdict(Timeout),
           rx' = <<>>, UNCHANGED hostVars
    PROVE  ~InBlock /\ Stored' /\ LineOK' /\ HostOK'
<1>0. ~InBlock
  <2>1. \A k \in DOMAIN Payload : ~Receiving(k)
    BY StillReceiving
  <2>2. QED
    BY <2>1 DEF LineOK, InBlock
<1>1. host = "gone"
  <2>1. at # "end"
    BY DEF First, Number, NumberAgain, Data, Csum, Verdict
  <2>2. <<NAK>> # <<>> /\ <<ACK>> # <<>> /\ <<EOT>> # <<>>
    OBVIOUS
  <2>3. host \notin {"reply", "eot"}
    BY <2>2 DEF HostSilent, HostOK
  <2>4. host \notin {"done", "over"}
    BY <2>1, <2>2 DEF VerdictDue, HostOK
  <2>5. QED
    BY <2>3, <2>4 DEF TypeInv, TypeOK
<1>2. CASE at = "verdict"
  <2>1. dest = Payload
    <3>1. \A k \in DOMAIN Payload : ~Receiving(k)
      BY StillReceiving
    <3>2. QED
      BY <1>2, <3>1 DEF LineOK
  <2>2. Verdict(Timeout)
    BY <1>2 DEF First, Number, NumberAgain, Data, Csum
  <2>3. Timeout # NAK
    BY Codes
  <2>4. QED
    BY <1>0, <1>1, <1>2, <2>1, <2>2, <2>3, AcceptStep
<1>3. CASE at # "verdict"
  <2>1. /\ UNCHANGED <<dest, blk_num, attempt>> /\ at' # "verdict"
        /\ (outcome' = outcome /\ at' # "end") \/ (outcome' = "failed" /\ at' = "end")
        /\ at' \in {"first", "end"}
    BY <1>0, <1>3, Codes DEF InBlock, First, FirstTimeout, FirstByte, Number, NumberAgain, Data, Csum, Verdict, AwaitBlock, Ended, GoOn
  <2>2. outcome = "none"
    BY DEF Stored, First, Number, NumberAgain, Data, Csum, Verdict
  <2>3. Stored'
    <3>1. attempt = 1 /\ blk_num = (Len(dest) + 1) % M
      BY DEF Stored
    <3>2. Len(dest) <= Len(Payload) /\ \A j \in 1 .. Len(dest) : dest[j] = Payload[j]
      BY DEF Stored
    <3>3. outcome' # "accepted" /\ (at' # "end" => outcome' = "none")
      BY <2>1, <2>2
    <3>4. QED
      BY <2>1, <3>1, <3>2, <3>3 DEF Stored
  <2>4. LineOK'
    BY <2>1 DEF LineOK, InBlock
  <2>5. HostOK'
    BY <1>1 DEF HostOK, hostVars
  <2>6. QED
    BY <1>0, <2>3, <2>4, <2>5
<1>4. QED
  BY <1>0, <1>2, <1>3

LEMMA LoaderInStep ==
    ASSUME TypeInv, TypeInv', Clean, ~cut, Stored, LineOK, HostOK, Loader, Clean'
    PROVE  ~cut' /\ Stored' /\ LineOK' /\ HostOK'
<1>1. PICK c \in Heard : /\ Receive(c)
                         /\ First(c) \/ Number(c) \/ NumberAgain(c) \/ Data(c) \/ Csum(c) \/ Verdict(c)
  BY DEF Loader
<1>2. UNCHANGED hostVars
  BY DEF Loader
<1>3. CASE rx = <<>>
  <2>1. c = Timeout /\ HostSilent /\ ~VerdictDue /\ rx' = <<>> /\ cut' = (cut \/ InBlock)
    BY <1>1, <1>3 DEF Receive, Clean
  <2>2. QED
    BY <1>1, <1>2, <1>3, <2>1, TimeoutStep
<1>4. CASE rx # <<>>
  <2>1. c = Head(rx) /\ rx' = Tail(rx) /\ cut' = cut
    <3>1. Stalls \in Nat
      BY XmodemAssumption
    <3>2. QED
      BY <1>1, <1>4 DEF Receive, Clean
  <2>2. CASE \E k \in DOMAIN Payload : Receiving(k)
    BY <1>1, <1>2, <2>1, <2>2, FrameStep
  <2>3. CASE rx = <<EOT>> /\ at = "first" /\ dest = Payload
    <3>1. c = EOT /\ rx' = <<>>
      BY <2>1, <2>3
    <3>2. First(EOT)
      BY <1>1, <2>3, <3>1 DEF Number, NumberAgain, Data, Csum, Verdict
    <3>3. QED
      BY <1>2, <2>1, <2>3, <3>1, <3>2, EndStep
  <2>4. CASE rx = <<ACK>> /\ at = "verdict" /\ dest = Payload
    <3>1. c = ACK /\ rx' = <<>> /\ ACK # NAK
      BY <2>1, <2>4, Codes
    <3>2. Verdict(c)
      BY <1>1, <2>4 DEF First, Number, NumberAgain, Data, Csum
    <3>3. QED
      BY <1>2, <2>1, <2>4, <3>1, <3>2, AcceptStep
  <2>5. QED
    BY <1>4, <2>2, <2>3, <2>4 DEF LineOK
<1>5. QED
  BY <1>3, <1>4

\* A frame that has just been sent is all on the line.
LEMMA FrameSent ==
    ASSUME TypeInv, NEW k \in 1 .. Len(Payload), Len(dest) = k - 1, at = "first", rx = <<>>,
           Send(Frame(k)), UNCHANGED receiverVars
    PROVE  Receiving(k)' /\ rx' # <<>>
<1>1. Frame(k) \in Seq(Bytes) /\ Len(Frame(k)) = BLOCK_SIZE + 4 /\ BLOCK_SIZE \in Nat /\ k \in DOMAIN Payload
  BY FrameShape, PayloadShape
<1>2. rx' = Frame(k)
  BY <1>1, ConcatEmptySeq, Zenon DEF Send
<1>3. at' = "first" /\ dest' = dest
  BY DEF receiverVars
<1>4. Taken' = 0
  BY <1>3 DEF Taken
<1>5. k = Len(dest') + 1
  BY <1>3, PayloadShape DEF TypeInv, TypeOK
<1>6. \A j \in 1 .. Len(rx') : rx'[j] = Frame(k)[Taken' + j]
  BY <1>1, <1>2, <1>4
<1>7. QED
  BY <1>1, <1>2, <1>3, <1>4, <1>5, <1>6 DEF Receiving

LEMMA ReplyInStep ==
    ASSUME TypeInv, Stored, LineOK, HostOK, HostReply, UNCHANGED receiverVars
    PROVE  Stored' /\ LineOK' /\ HostOK'
<1>1. Stored' /\ at' = at /\ dest' = dest
  BY DEF Stored, receiverVars
<1>2. /\ cur \in 1 .. Len(Payload) /\ Len(Payload) \in Nat \ {0} /\ DOMAIN Payload = 1 .. Len(Payload)
  BY PayloadShape DEF TypeInv, TypeOK
<1>3. CASE tx = <<NAK>> /\ rx = <<>> /\ at = "first" /\ dest = <<>> /\ cur = 1
  <2>1. Head(tx) = NAK /\ NAK # CAN /\ Tail(tx) = <<>>
    BY <1>3, Codes
  <2>2. Send(Frame(1)) /\ UNCHANGED hostVars /\ tx' = <<>>
    BY <1>3, <2>1 DEF HostReply
  <2>3. Receiving(1)' /\ rx' # <<>>
    BY <1>2, <1>3, <2>2, FrameSent
  <2>4. QED
    BY <1>1, <1>2, <1>3, <2>2, <2>3 DEF LineOK, HostOK, HostReply, hostVars
<1>4. CASE tx = <<ACK>> /\ rx = <<>> /\ at = "first" /\ Len(dest) = cur /\ cur = Len(Payload)
  <2>1. Head(tx) = ACK /\ ACK # CAN /\ ACK # NAK /\ Tail(tx) = <<>>
    BY <1>4, Codes
  <2>2. Send(<<EOT>>) /\ host' = "eot" /\ tx' = <<>>
    BY <1>4, <2>1 DEF HostReply
  <2>3. rx' = <<EOT>>
    BY <1>4, <2>2 DEF Send
  <2>4. dest = Payload
    <3>1. dest \in Seq(Seq(Bytes)) /\ Payload \in Seq(Seq(Bytes))
      BY XmodemAssumption DEF TypeInv, TypeOK
    <3>2. Len(dest) = Len(Payload) /\ \A j \in 1 .. Len(dest) : dest[j] = Payload[j]
      BY <1>4 DEF Stored
    <3>3. QED
      BY <3>1, <3>2, SeqEqual, Zenon
  <2>5. QED
    BY <1>1, <1>4, <2>2, <2>3, <2>4 DEF LineOK, HostOK
<1>5. CASE tx = <<ACK>> /\ rx = <<>> /\ at = "first" /\ Len(dest) = cur /\ cur # Len(Payload)
  <2>1. Head(tx) = ACK /\ ACK # CAN /\ ACK # NAK /\ Tail(tx) = <<>>
    BY <1>5, Codes
  <2>2. Send(Frame(cur + 1)) /\ cur' = cur + 1 /\ host' = host /\ tx' = <<>>
    BY <1>5, <2>1 DEF HostReply
  <2>3. PICK k : k = cur + 1
    OBVIOUS
  <2>4. k \in 1 .. Len(Payload) /\ Len(dest) = k - 1
    <3>1. PICK n, m : n = Len(Payload) /\ m = cur
      OBVIOUS
    <3>2. n \in Nat /\ m \in 1 .. n /\ m # n /\ k = m + 1 /\ Len(dest) = m
      BY <1>2, <1>5, <2>3, <3>1
    <3>3. QED
      BY <3>1, <3>2
  <2>5. Receiving(k)' /\ rx' # <<>>
    BY <1>5, <2>2, <2>3, <2>4, FrameSent
  <2>6. QED
    BY <1>1, <1>2, <2>2, <2>3, <2>4, <2>5 DEF LineOK, HostOK, HostReply
<1>6. QED
  BY <1>3, <1>4, <1>5 DEF HostReply, HostOK

LEMMA HostInStep ==
    ASSUME TypeInv, Clean, Stored, LineOK, HostOK, HostStep, Clean'
    PROVE  Stored' /\ LineOK' /\ HostOK'
<1>1. UNCHANGED receiverVars
  BY DEF HostStep
<1>2. Stored' /\ at' = at /\ dest' = dest
  BY <1>1 DEF Stored, receiverVars
<1>3. CASE HostReply
  BY <1>1, <1>3, ReplyInStep
<1>4. CASE HostEot
  <2>1. host = "eot" /\ tx = <<ACK>> /\ rx = <<>> /\ at = "verdict" /\ dest = Payload
    BY <1>4 DEF HostEot, HostOK
  <2>2. Head(tx) = ACK /\ ACK # CAN /\ ACK # NAK
    BY <2>1, Codes
  <2>3. host' = "done" /\ rx' = rx
    BY <1>4, <2>2 DEF HostEot
  <2>4. QED
    BY <1>2, <2>1, <2>3 DEF LineOK, InBlock, HostOK
<1>5. CASE HostVerdict
  <2>1. host = "done" /\ at = "verdict" /\ rx = <<>> /\ dest = Payload
    BY <1>5 DEF HostVerdict, VerdictDue, HostOK
  <2>2. losses' # losses + 1
    BY DEF Clean
  <2>3. Send(<<ACK>>) /\ host' = "over"
    BY <1>5, <2>1, <2>2 DEF HostVerdict
  <2>4. rx' = <<ACK>>
    BY <2>1, <2>3 DEF Send
  <2>5. QED
    BY <1>2, <2>1, <2>3, <2>4 DEF LineOK, HostOK
<1>6. QED
  BY <1>3, <1>4, <1>5 DEF HostStep

LEMMA InStepStep == TypeInv /\ InStep /\ [Next]_vars => InStep'
<1> SUFFICES ASSUME TypeInv, InStep, [Next]_vars, Clean' PROVE ~cut' /\ Stored' /\ LineOK' /\ HostOK'
  BY DEF InStep
<1>1. Clean /\ ~cut /\ Stored /\ LineOK /\ HostOK
  BY CleanBefore DEF InStep
<1>2. CASE Loader
  BY <1>1, <1>2, LoaderType, LoaderInStep
<1>3. CASE HostStep
  BY <1>1, <1>3, HostInStep DEF HostStep
<1>4. CASE Quit
  <2>1. host' = "gone" /\ UNCHANGED <<receiverVars, rx, cut>>
    BY <1>4 DEF Quit, HostQuit, faultVars
  <2>2. QED
    BY <1>1, <2>1 DEF Stored, LineOK, InBlock, HostOK, Receiving, Taken, receiverVars, blockVars
<1>5. CASE LoseIn \/ LoseReply
  BY <1>1, <1>5 DEF LoseIn, LoseReply, Clean
<1>6. CASE UNCHANGED vars
  BY <1>1, <1>6 DEF vars, faultVars, Stored, LineOK, InBlock, HostOK, Receiving, Taken, receiverVars, blockVars, hostVars
<1>7. QED
  BY <1>2, <1>3, <1>4, <1>5, <1>6 DEF Next

LEMMA InStepInit == Init => InStep
<1> SUFFICES ASSUME Init PROVE ~cut /\ Stored /\ LineOK /\ HostOK
  BY DEF InStep
<1>1. M \in Nat \ {0, 1} /\ Len(Payload) \in Nat
  BY XmodemAssumption, PayloadShape
<1>2. (0 + 1) % M = 1
  <2>1. 1 \in 0 .. M - 1 /\ 0 + 1 = 0 * M + 1
    BY <1>1
  <2>2. QED
    BY <2>1, Remainder
<1>3. Stored
  BY <1>1, <1>2 DEF Init, Stored
<1>4. QED
  BY <1>3 DEF Init, LineOK, InBlock, HostOK

LEMMA InStepHolds == Spec => []InStep
<1>1. QED
  BY InStepInit, InStepStep, TypeInvHolds, PTL DEF Spec

(***************************************************************************)
(* On a line that has lost and delayed nothing so far, no block reaches    *)
(* the loader in pieces, and the checks of xmodem_receive before the copy  *)
(* let nothing wrong through, whatever the bytes of the image are, however *)
(* often the block number has wrapped, and whenever the host quits: what   *)
(* is in memory are the first blocks of the image, each once and in order. *)
(***************************************************************************)
THEOREM CleanStoredInOrder == Spec => [](Clean => ~cut /\ StoredInOrder)
<1>1. TypeInv /\ InStep => (Clean => ~cut /\ StoredInOrder)
  <2> SUFFICES ASSUME TypeInv, ~cut, Stored PROVE StoredInOrder
    BY DEF InStep
  <2>1. dest \in Seq(Seq(Bytes)) /\ Payload \in Seq(Seq(Bytes)) /\ Len(dest) \in Nat
    BY XmodemAssumption DEF TypeInv, TypeOK
  <2>2. Len(dest) <= Len(Payload) /\ \A j \in 1 .. Len(dest) : dest[j] = Payload[j]
    BY DEF Stored
  <2>3. SubSeq(dest, 1, Len(dest)) = [j \in 1 .. Len(dest) |-> dest[j]]
    BY <2>1
  <2>4. SubSeq(Payload, 1, Len(dest)) = [j \in 1 .. Len(dest) |-> Payload[j]]
    BY <2>1, <2>2
  <2>5. QED
    BY <2>2, <2>3, <2>4 DEF StoredInOrder, IsPrefix
<1>2. QED
  BY <1>1, TypeInvHolds, InStepHolds, PTL

(***************************************************************************)
(* On such a line the host never moves past a block that is not in memory: *)
(* every ACK it reads is the one that xmodem_receive put for the block     *)
(* that it has just stored.                                                *)
(***************************************************************************)
THEOREM CleanAckedStored == Spec => [](Clean => ~cut /\ AckedStored)
<1>1. TypeInv /\ InStep => (Clean => ~cut /\ AckedStored)
  <2> SUFFICES ASSUME TypeInv, InStep, Clean, host = "reply" PROVE ~cut /\ cur - 1 <= Len(dest)
    BY DEF InStep, AckedStored
  <2>1. Len(dest) \in Nat /\ cur \in Int
    BY PayloadShape DEF TypeInv, TypeOK
  <2>2. Len(dest) = cur \/ Len(dest) = cur - 1 \/ (dest = <<>> /\ cur = 1)
    BY DEF InStep, HostOK
  <2>3. QED
    BY <2>1, <2>2 DEF InStep
<1>2. QED
  BY <1>1, TypeInvHolds, InStepHolds, PTL

(***************************************************************************)
(* On such a line an image that the loader accepts, on the byte of the     *)
(* host or on its silence, is the image that was sent.  That any byte but  *)
(* NAK accepts (xmodem_receive_verified) needs a disturbed line to harm.   *)
(***************************************************************************)
THEOREM CleanAcceptedWhole == Spec => [](Clean => AcceptedWhole)
<1>1. InStep => (Clean => AcceptedWhole)
  BY DEF InStep, Stored, AcceptedWhole
<1>2. QED
  BY <1>1, InStepHolds, PTL
=============================================================================
