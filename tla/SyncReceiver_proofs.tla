-------------------------- MODULE SyncReceiver_proofs --------------------------
(***************************************************************************)
(* What the synchronous receivers promise, for every batch size, limit,    *)
(* sampling rate, number of datagrams and of short writes, and for every   *)
(* size of the log's header, entries and buffer: their contract, and that  *)
(* the log they leave loads as what was logged.                            *)
(***************************************************************************)
EXTENDS SyncReceiver, SequenceTheorems, TLAPS

-----------------------------------------------------------------------------
(* The shape of a log. *)

Word == Int \X Nat

(* So many entries have so many words.                                     *)
Span(n) == n * EntryWords

(* The header; the first words of the entries; and all entries from some   *)
(* one on that those words do not reach.                                   *)
Shape(raw, entries, words, skipped) ==
  /\ words \in Nat /\ skipped \in 0 .. Len(entries) /\ words <= Span(skipped)
  /\ Len(raw) = HeaderWords + words + Span(Len(entries) - skipped)
  /\ \A k \in 1 .. HeaderWords : raw[k] = <<Header, k>>
  /\ \A r \in 1 .. skipped, k \in 1 .. EntryWords :
       Span(r - 1) + k <= words => raw[HeaderWords + Span(r - 1) + k] = <<entries[r], k>>
  /\ \A r \in 1 .. Len(entries), k \in 1 .. EntryWords :
       r > skipped => raw[HeaderWords + words + Span(r - skipped - 1) + k] = <<entries[r], k>>

(* Nothing is missing.                                                     *)
Intact(raw, entries) == Shape(raw, entries, 0, 0)

(* One run of words is missing, and what is after it begins with an entry. *)
Damaged(raw, entries) ==
  \E words \in Nat, skipped \in 0 .. Len(entries) : Shape(raw, entries, words, skipped)

(* The header, or its end, is missing.                                     *)
Headless(raw) == \E n \in 1 .. HeaderWords : n > Len(raw) \/ raw[n] # <<Header, n>>

Logger == [buffer : Seq(Word), stdio : Seq(Word), file : Seq(Word)]

(* What was written and what is to be written.                             *)
Content(l) == l.file \o Pending(l)

(* File and buffers together are the log of the entries, of which at most  *)
(* one write was cut short. Each write begins with an entry or with the    *)
(* header, so that a short one leaves a gap of the kind that Damaged       *)
(* describes, or a part of the header.                                     *)
Logs(l, entries, cut) ==
  /\ cut = 0 => Intact(Content(l), entries)
  /\ cut = 1 => Damaged(Content(l), entries) \/ Headless(Content(l))

-----------------------------------------------------------------------------
(* The invariant. *)

TypeInv ==
  /\ variant \in {"baseline", "batched"}
  /\ pc \in {"setup", "loop", "recv", "batch", "process", "left", "report", "exit"}
  /\ remaining \in Nat
  /\ packet \in Packet
  /\ stats \in [Counter -> Nat]
  /\ processed \in Seq(Packet)
  /\ logged \in Seq(Nat)
  /\ logger \in Logger
  /\ shorts \in Nat
  /\ interrupted \in BOOLEAN
  /\ stop_requested \in BOOLEAN
  /\ exit_code \in {NotExited, 0, 1, 2, Killed}

(* A packet is processed before the next datagram is looked at.            *)
PacketInv ==
  /\ stats["valid"] <= stats["datagrams_received"]
  /\ stats["datagrams_received"] + remaining <= MaxDatagrams
  /\ pc = "process" => Len(processed) + 1 = stats["valid"]
  /\ pc # "process" /\ exit_code # Killed => Len(processed) = stats["valid"]
  /\ exit_code = NotExited <=> pc # "exit"

(* Until the process is killed, the log is kept; an exit has written it    *)
(* unless the setup failed.                                                *)
LoggerInv ==
  exit_code # Killed =>
    /\ Logs(logger, logged, shorts)
    /\ pc = "setup" => logger.file = << >>
    /\ pc = "exit" => Pending(logger) = << >> \/ (exit_code # 0 /\ logger.file = << >>)

(* A kill that is the only damage leaves a part of the log.                *)
KillInv ==
  exit_code = Killed /\ shorts = 0 =>
    \/ Damaged(logger.file, logged)
    \/ \E n \in 0 .. HeaderWords - 1 : logger.file = SubSeq(encode_log_header, 1, n)

Inv == TypeInv /\ PacketInv /\ LoggerInv /\ KillInv

-----------------------------------------------------------------------------
(* The shape of a log under the operations of the logger.                  *)

LEMMA SpanFacts ==
  ASSUME NEW m \in Nat, NEW n \in Nat
  PROVE  /\ Span(n) \in Nat
         /\ Span(0) = 0
         /\ Span(n + 1) = Span(n) + EntryWords
         /\ m <= n => Span(m) <= Span(n) /\ Span(n - m) = Span(n) - Span(m)
         /\ m < n => Span(m) + EntryWords <= Span(n)
<1>1. EntryWords \in Nat \ {0}
  BY BinaryLogAssumption
<1>2. /\ n * EntryWords \in Nat
      /\ 0 * EntryWords = 0
      /\ (n + 1) * EntryWords = n * EntryWords + EntryWords
  BY <1>1
<1>3. ASSUME m <= n
      PROVE  /\ m * EntryWords <= n * EntryWords
             /\ (n - m) * EntryWords = n * EntryWords - m * EntryWords
  <2>1. n - m \in Nat
    BY <1>3
  <2>2. (n - m) * EntryWords \in Nat
    BY <1>1, <2>1
  <2>3. (n - m) * EntryWords = n * EntryWords - m * EntryWords
    BY <1>1
  <2>4. m * EntryWords \in Nat
    BY <1>1
  <2> QED
    BY <1>2, <2>2, <2>3, <2>4
<1>4. ASSUME m < n PROVE m * EntryWords + EntryWords <= n * EntryWords
  <2>1. n - m - 1 \in Nat
    BY <1>4
  <2>2. (n - m - 1) * EntryWords \in Nat
    BY <1>1, <2>1
  <2>3. n * EntryWords = m * EntryWords + EntryWords + (n - m - 1) * EntryWords
    BY <1>1
  <2>4. m * EntryWords \in Nat
    BY <1>1
  <2> QED
    BY <1>1, <1>2, <2>2, <2>3, <2>4
<1> QED
  BY <1>2, <1>3, <1>4 DEF Span

(* What an encoded entry and the header are.                               *)
LEMMA EncodedEntry ==
  ASSUME NEW e \in Nat
  PROVE  /\ encode_log_entry(e) \in Seq(Word)
         /\ Len(encode_log_entry(e)) = EntryWords
         /\ \A k \in 1 .. EntryWords : encode_log_entry(e)[k] = <<e, k>>
<1>1. EntryWords \in Nat
  BY BinaryLogAssumption
<1>2. \A k \in 1 .. EntryWords : <<e, k>> \in Word
  BY DEF Word
<1> QED
  BY <1>1, <1>2 DEF encode_log_entry, Words

LEMMA EncodedHeader ==
  /\ encode_log_header \in Seq(Word)
  /\ Len(encode_log_header) = HeaderWords
  /\ \A k \in 1 .. HeaderWords : encode_log_header[k] = <<Header, k>>
<1>1. HeaderWords \in Nat
  BY BinaryLogAssumption
<1>2. \A k \in 1 .. HeaderWords : <<Header, k>> \in Word
  BY DEF Word, Header
<1> QED
  BY <1>1, <1>2 DEF encode_log_header, Words

(* An empty log.                                                           *)
LEMMA HeaderIsIntact == Intact(encode_log_header, << >>)
<1>1. Len(<< >>) = 0 /\ HeaderWords \in Nat
  BY BinaryLogAssumption
<1>2. Span(0) \in Nat /\ Span(0) = 0
  BY SpanFacts
<1> QED
  BY <1>1, <1>2, EncodedHeader DEF Intact, Shape

LEMMA IntactIsDamaged ==
  ASSUME NEW raw, NEW entries \in Seq(Nat), Intact(raw, entries)
  PROVE  Damaged(raw, entries)
<1>1. 0 \in Nat /\ 0 \in 0 .. Len(entries)
  OBVIOUS
<1> QED
  BY <1>1 DEF Intact, Damaged

(* Where the elements of a concatenation come from.                        *)
LEMMA Concatenation ==
  ASSUME NEW S, NEW s \in Seq(S), NEW t \in Seq(S)
  PROVE  /\ Len(s \o t) = Len(s) + Len(t)
         /\ \A i \in 1 .. Len(s) : (s \o t)[i] = s[i]
         /\ \A k \in 1 .. Len(t) : (s \o t)[Len(s) + k] = t[k]
<1>1. Len(s) \in Nat /\ Len(t) \in Nat
  OBVIOUS
<1>2. /\ Len(s \o t) = Len(s) + Len(t)
      /\ \A i \in 1 .. Len(s) + Len(t) :
           (s \o t)[i] = IF i <= Len(s) THEN s[i] ELSE t[i - Len(s)]
  BY ONLY s \in Seq(S), t \in Seq(S), ConcatProperties
<1>3. ASSUME NEW i \in 1 .. Len(s) PROVE (s \o t)[i] = s[i]
  <2>1. i \in 1 .. Len(s) + Len(t) /\ i <= Len(s)
    BY <1>1
  <2> QED
    BY <1>2, <2>1
<1>4. ASSUME NEW k \in 1 .. Len(t) PROVE (s \o t)[Len(s) + k] = t[k]
  <2> DEFINE i == Len(s) + k
  <2>1. i \in 1 .. Len(s) + Len(t) /\ ~(i <= Len(s)) /\ i - Len(s) = k
    BY <1>1
  <2> HIDE DEF i
  <2>2. (s \o t)[i] = t[i - Len(s)]
    BY <1>2, <2>1
  <2> QED
    BY <2>1, <2>2 DEF i
<1> QED
  BY <1>2, <1>3, <1>4

(* An entry is appended.                                                   *)
LEMMA EntryAppends ==
  ASSUME NEW raw \in Seq(Word), NEW entries \in Seq(Nat), NEW e \in Nat,
         NEW words \in Nat, NEW skipped \in 0 .. Len(entries),
         Shape(raw, entries, words, skipped)
  PROVE  Shape(raw \o encode_log_entry(e), Append(entries, e), words, skipped)
<1> DEFINE longer == Append(entries, e)
           new == raw \o encode_log_entry(e)
           n == Len(entries)
           at(r) == HeaderWords + words + Span(r - skipped - 1)
<1>1. /\ n \in Nat /\ skipped \in Nat /\ skipped <= n
      /\ Len(longer) = n + 1
      /\ \A r \in 1 .. n : longer[r] = entries[r]
      /\ longer[n + 1] = e
  OBVIOUS
<1>2. /\ HeaderWords \in Nat /\ EntryWords \in Nat \ {0}
  BY BinaryLogAssumption
<1>3. /\ Len(raw) = HeaderWords + words + Span(n - skipped)
      /\ words <= Span(skipped)
  BY DEF Shape
<1>4. /\ Span(n - skipped) \in Nat
      /\ Span(n + 1 - skipped) = Span(n - skipped) + EntryWords
  <2>1. n - skipped \in Nat /\ (n - skipped) + 1 = n + 1 - skipped
    BY <1>1
  <2> QED
    BY <2>1, SpanFacts
<1>5. /\ Len(new) = Len(raw) + EntryWords
      /\ \A i \in 1 .. Len(raw) : new[i] = raw[i]
      /\ \A k \in 1 .. EntryWords : new[Len(raw) + k] = <<e, k>>
  <2> DEFINE entry == encode_log_entry(e)
  <2>1. entry \in Seq(Word) /\ Len(entry) = EntryWords
    BY EncodedEntry
  <2>2. \A k \in 1 .. EntryWords : entry[k] = <<e, k>>
    BY EncodedEntry
  <2> HIDE DEF entry
  <2> DEFINE S == Seq(Word)
  <2>3. \A s, t \in S :
          /\ Len(s \o t) = Len(s) + Len(t)
          /\ \A i \in 1 .. Len(s) : (s \o t)[i] = s[i]
          /\ \A k \in 1 .. Len(t) : (s \o t)[Len(s) + k] = t[k]
    BY ONLY Concatenation
  <2>4. raw \in S /\ entry \in S
    BY <2>1
  <2> HIDE DEF S
  <2>5. /\ Len(raw \o entry) = Len(raw) + Len(entry)
        /\ \A i \in 1 .. Len(raw) : (raw \o entry)[i] = raw[i]
        /\ \A k \in 1 .. Len(entry) : (raw \o entry)[Len(raw) + k] = entry[k]
    BY ONLY <2>3, <2>4, Zenon
  <2> QED
    BY ONLY <2>1, <2>2, <2>5 DEF new, entry
<1>6. Len(new) = HeaderWords + words + Span(Len(longer) - skipped)
  BY <1>1, <1>2, <1>3, <1>4, <1>5
<1>7. ASSUME NEW k \in 1 .. HeaderWords PROVE new[k] = <<Header, k>>
  <2>1. k \in 1 .. Len(raw)
    BY <1>2, <1>3, <1>4
  <2> QED
    BY <1>5, <2>1 DEF Shape
<1>8. ASSUME NEW r \in 1 .. skipped, NEW k \in 1 .. EntryWords, Span(r - 1) + k <= words
      PROVE  new[HeaderWords + Span(r - 1) + k] = <<longer[r], k>>
  <2>1. r - 1 \in Nat /\ r \in 1 .. n
    BY <1>1
  <2>2. Span(r - 1) \in Nat
    BY <2>1, SpanFacts
  <2>3. HeaderWords + Span(r - 1) + k \in 1 .. Len(raw)
    <3> DEFINE s == Span(r - 1)
               t == Span(n - skipped)
    <3>1. s \in Nat /\ t \in Nat /\ s + k <= words /\ Len(raw) = HeaderWords + words + t
      BY <1>3, <1>4, <1>8, <2>2
    <3> HIDE DEF s, t, n
    <3>2. HeaderWords + s + k \in 1 .. HeaderWords + words + t
      BY <1>2, <3>1
    <3> QED
      BY <3>1, <3>2 DEF s
  <2>4. raw[HeaderWords + Span(r - 1) + k] = <<entries[r], k>>
    BY <1>8 DEF Shape
  <2> QED
    BY <1>1, <1>5, <2>1, <2>3, <2>4
<1>9. ASSUME NEW r \in 1 .. n + 1, NEW k \in 1 .. EntryWords, r > skipped
      PROVE  new[at(r) + k] = <<longer[r], k>>
  <2>1. r - skipped - 1 \in Nat
    BY <1>1, <1>9
  <2>2. Span(r - skipped - 1) \in Nat
    BY <2>1, SpanFacts
  <2>3. CASE r <= n
    <3>1. r - skipped - 1 < n - skipped /\ n - skipped \in Nat
      BY <1>1, <2>3
    <3>2. Span(r - skipped - 1) + EntryWords <= Span(n - skipped)
      BY <2>1, <3>1, SpanFacts
    <3>3. at(r) + k \in 1 .. Len(raw)
      <4> DEFINE s == Span(r - skipped - 1)
                 t == Span(n - skipped)
      <4>1. s \in Nat /\ t \in Nat /\ s + EntryWords <= t /\ Len(raw) = HeaderWords + words + t
        BY <1>3, <1>4, <2>2, <3>2
      <4> HIDE DEF s, t, n
      <4>2. HeaderWords + words + s + k \in 1 .. HeaderWords + words + t
        BY <1>2, <4>1
      <4> QED
        BY <4>1, <4>2 DEF s
    <3>4. raw[at(r) + k] = <<entries[r], k>>
      BY <1>9, <2>3, <1>1 DEF Shape
    <3>5. longer[r] = entries[r]
      BY <1>1, <2>3
    <3> HIDE DEF new, longer, at
    <3> QED
      BY <1>5, <3>3, <3>4, <3>5
  <2>4. CASE r = n + 1
    <3>1. r - skipped - 1 = n - skipped
      BY <2>4, <1>1
    <3>2. at(r) = Len(raw)
      BY <3>1, <1>3
    <3>3. new[Len(raw) + k] = <<e, k>>
      BY <1>5
    <3>4. longer[r] = e
      BY <1>1, <2>4
    <3> HIDE DEF new, longer, at
    <3> QED
      BY <3>2, <3>3, <3>4
  <2>5. r <= n \/ r = n + 1
    <3> HIDE DEF n
    <3> QED
      BY <1>1
  <2> QED
    BY <2>3, <2>4, <2>5
<1> HIDE DEF longer, new, n
<1>10. /\ skipped \in 0 .. Len(longer)
       /\ words <= Span(skipped)
  BY <1>1, <1>3
<1>11. Shape(new, longer, words, skipped)
  BY <1>1, <1>6, <1>7, <1>8, <1>9, <1>10 DEF Shape
<1> QED
  BY <1>11 DEF longer, new

(* All but the beginning is lost.                                          *)
LEMMA EndIsLost ==
  ASSUME NEW raw \in Seq(Word), NEW entries \in Seq(Nat), Intact(raw, entries),
         NEW n \in HeaderWords .. Len(raw)
  PROVE  Damaged(SubSeq(raw, 1, n), entries)
<1> DEFINE rest == SubSeq(raw, 1, n)
           all == Len(entries)
           words == n - HeaderWords
<1>1. /\ all \in Nat
      /\ HeaderWords \in Nat /\ EntryWords \in Nat \ {0}
  BY BinaryLogAssumption
<1>2. Span(all) \in Nat /\ Span(0) = 0 /\ Span(all - 0) = Span(all) /\ Span(all - all) = 0
  <2>1. all - all = 0 /\ all - 0 = all
    BY <1>1
  <2> QED
    BY <1>1, <2>1, SpanFacts
<1>3. Len(raw) = HeaderWords + Span(all)
  BY <1>1, <1>2 DEF Intact, Shape
<1>4. words \in Nat /\ words <= Span(all) /\ n \in Nat
  BY <1>1, <1>2, <1>3
<1>5. Len(rest) = n /\ \A i \in 1 .. n : rest[i] = raw[i]
  BY <1>1, <1>4
<1>6. Len(rest) = HeaderWords + words + Span(all - all)
  BY <1>1, <1>2, <1>4, <1>5
<1>7. ASSUME NEW k \in 1 .. HeaderWords PROVE rest[k] = <<Header, k>>
  <2>1. k \in 1 .. n
    BY <1>1
  <2> QED
    BY <1>5, <2>1 DEF Intact, Shape
<1>8. ASSUME NEW r \in 1 .. all, NEW k \in 1 .. EntryWords, Span(r - 1) + k <= words
      PROVE  rest[HeaderWords + Span(r - 1) + k] = <<entries[r], k>>
  <2>1. r - 1 \in Nat /\ r - 0 - 1 = r - 1 /\ r > 0
    BY <1>1
  <2>2. Span(r - 1) \in Nat
    BY <2>1, SpanFacts
  <2>3. HeaderWords + Span(r - 1) + k \in 1 .. n
    BY <1>1, <1>8, <2>2
  <2>4. raw[HeaderWords + 0 + Span(r - 0 - 1) + k] = <<entries[r], k>>
    BY <2>1 DEF Intact, Shape
  <2>5. raw[HeaderWords + Span(r - 1) + k] = <<entries[r], k>>
    <3>1. HeaderWords + 0 = HeaderWords
      BY <1>1
    <3> QED
      BY ONLY <2>1, <2>4, <3>1
  <2> QED
    BY <1>5, <2>3, <2>5
<1>9. ASSUME NEW r \in 1 .. all, r > all PROVE FALSE
  BY <1>1, <1>9
<1> HIDE DEF rest, all, words
<1>10. all \in 0 .. all
  BY <1>1
<1>11. Shape(rest, entries, words, all)
  BY <1>4, <1>6, <1>7, <1>8, <1>9, <1>10 DEF Shape, all
<1> QED
  BY <1>4, <1>10, <1>11 DEF Damaged, rest, all

(* All but a part of the header is lost.                                   *)
LEMMA HeaderIsLost ==
  ASSUME NEW raw \in Seq(Word), NEW n \in Nat, n <= Len(raw), n < HeaderWords
  PROVE  Headless(SubSeq(raw, 1, n))
<1>1. Len(SubSeq(raw, 1, n)) = n
  OBVIOUS
<1>2. n + 1 \in 1 .. HeaderWords /\ n + 1 > n
  BY BinaryLogAssumption
<1> QED
  BY <1>1, <1>2 DEF Headless

(* What follows does not make up for it.                                   *)
LEMMA StaysHeadless ==
  ASSUME NEW raw \in Seq(Word), NEW e \in Nat, Headless(raw)
  PROVE  Headless(raw \o encode_log_entry(e))
<1> DEFINE entry == encode_log_entry(e)
           new == raw \o entry
<1>1. PICK n \in 1 .. HeaderWords : n > Len(raw) \/ raw[n] # <<Header, n>>
  BY DEF Headless
<1>2. /\ entry \in Seq(Word) /\ Len(entry) = EntryWords
      /\ \A k \in 1 .. EntryWords : entry[k] = <<e, k>>
  BY EncodedEntry
<1> HIDE DEF entry
<1>3. /\ Len(new) = Len(raw) + Len(entry)
      /\ \A i \in 1 .. Len(raw) : new[i] = raw[i]
      /\ \A k \in 1 .. Len(entry) : new[Len(raw) + k] = entry[k]
  <2> DEFINE S == Seq(Word)
  <2>1. \A s, t \in S :
          /\ Len(s \o t) = Len(s) + Len(t)
          /\ \A i \in 1 .. Len(s) : (s \o t)[i] = s[i]
          /\ \A k \in 1 .. Len(t) : (s \o t)[Len(s) + k] = t[k]
    BY ONLY Concatenation
  <2>2. raw \in S /\ entry \in S
    BY <1>2
  <2> HIDE DEF S
  <2> QED
    BY ONLY <2>1, <2>2, Zenon DEF new
<1>4. HeaderWords \in Nat /\ EntryWords \in Nat \ {0} /\ Len(raw) \in Nat /\ n \in Nat /\ n >= 1
  BY BinaryLogAssumption
<1> HIDE DEF new
<1>5. CASE n <= Len(raw)
  <2>1. n \in 1 .. Len(raw)
    BY <1>4, <1>5
  <2>2. new[n] # <<Header, n>>
    BY <1>1, <1>3, <1>4, <1>5, <2>1
  <2> QED
    BY <2>2 DEF Headless, new, entry
<1>6. CASE n > Len(raw)
  <2> DEFINE m == Len(raw) + 1
  <2>1. m \in 1 .. HeaderWords /\ 1 \in 1 .. Len(entry) /\ 1 \in 1 .. EntryWords
    BY <1>2, <1>4, <1>6
  <2>2. new[m] = <<e, 1>>
    BY <1>2, <1>3, <2>1
  <2>3. e # Header
    BY DEF Header
  <2> HIDE DEF m
  <2>4. new[m] # <<Header, m>>
    BY <2>2, <2>3
  <2> QED
    BY <2>1, <2>4 DEF Headless, new, entry
<1> QED
  BY <1>4, <1>5, <1>6

-----------------------------------------------------------------------------
(* The shape of a log and its reader.                                      *)

LEMMA HeaderIsFound ==
  ASSUME NEW raw \in Seq(Word), HeaderWords <= Len(raw),
         \A k \in 1 .. HeaderWords : raw[k] = <<Header, k>>
  PROVE  StartsWithMagic(raw) /\ HeaderIsValid(raw)
<1> DEFINE header == encode_log_header
<1>1. MagicWords \in Nat /\ MagicWords <= HeaderWords /\ HeaderWords \in Nat
  BY BinaryLogAssumption
<1>2. header \in Seq(Word) /\ Len(header) = HeaderWords
  BY EncodedHeader
<1>3. \A k \in 1 .. HeaderWords : header[k] = raw[k]
  BY EncodedHeader
<1> HIDE DEF header
<1>4. SubSeq(raw, 1, MagicWords) = SubSeq(header, 1, MagicWords)
  BY <1>1, <1>2, <1>3
<1>5. SubSeq(raw, 1, HeaderWords) = header
  <2> DEFINE part == SubSeq(raw, 1, HeaderWords)
  <2>1. /\ part \in Seq(Word) /\ Len(part) = HeaderWords
        /\ \A k \in 1 .. HeaderWords : part[k] = raw[k]
    BY <1>1
  <2> HIDE DEF part
  <2>2. part = header
    BY <1>2, <1>3, <2>1, SeqEqual
  <2> QED
    BY <2>2 DEF part
<1> QED
  BY <1>1, <1>4, <1>5 DEF StartsWithMagic, HeaderIsValid, header

(* The magic number alone is not enough.                                   *)
LEMMA HeadlessFails ==
  ASSUME NEW raw \in Seq(Word), Headless(raw), StartsWithMagic(raw), Loads(raw)
  PROVE  FALSE
<1>1. raw # << >>
  BY BinaryLogAssumption DEF StartsWithMagic
<1>2. Len(raw) >= HeaderWords /\ SubSeq(raw, 1, HeaderWords) = encode_log_header
  BY <1>1 DEF Loads, HeaderIsValid
<1> DEFINE header == encode_log_header
<1>3. \A k \in 1 .. HeaderWords : header[k] = <<Header, k>>
  BY EncodedHeader
<1>4. SubSeq(raw, 1, HeaderWords) = header
  BY <1>2
<1> HIDE DEF header
<1>5. HeaderWords \in Nat /\ Len(raw) \in Nat /\ HeaderWords <= Len(raw)
  BY <1>2, BinaryLogAssumption
<1>6. \A k \in 1 .. HeaderWords : SubSeq(raw, 1, HeaderWords)[k] = raw[k]
  BY <1>5
<1>7. \A k \in 1 .. HeaderWords : raw[k] = <<Header, k>> /\ ~(k > Len(raw))
  BY <1>3, <1>4, <1>5, <1>6
<1> QED
  BY <1>7 DEF Headless

(* How long the payload is, and where its words are in the file.           *)
LEMMA PayloadWords ==
  ASSUME NEW raw \in Seq(Word), HeaderWords <= Len(raw)
  PROVE  /\ Payload(raw) \in Seq(Word)
         /\ Len(Payload(raw)) = Len(raw) - HeaderWords
         /\ \A i \in 1 .. Len(raw) - HeaderWords : Payload(raw)[i] = raw[HeaderWords + i]
<1>1. HeaderWords \in Nat /\ Len(raw) \in Nat
  BY BinaryLogAssumption
<1> DEFINE first == HeaderWords + 1
           last == Len(raw)
           part == SubSeq(raw, first, last)
<1>2. first \in 1 .. last + 1 /\ last \in Nat
  BY <1>1
<1>3. Len(part) = last - HeaderWords
  BY <1>1, <1>2
<1>4. ASSUME NEW i \in 1 .. last - HeaderWords PROVE part[i] = raw[HeaderWords + i]
  <2>1. first + i - 1 = HeaderWords + i /\ i \in 1 .. last - first + 1
    BY <1>1
  <2>2. part[i] = raw[first + i - 1]
    BY <1>1, <1>2, <2>1
  <2> QED
    BY <2>1, <2>2
<1>5. part \in Seq(Word)
  BY <1>1, <1>2
<1> QED
  BY <1>3, <1>4, <1>5 DEF Payload

(* A payload of whole records.                                             *)
LEMMA RecordIsRead ==
  ASSUME NEW raw \in Seq(Word), NEW count \in Nat, Len(raw) = HeaderWords + Span(count)
  PROVE  /\ StartsWithMagic(raw) =>
              load_binary_file(raw) = [r \in 1 .. count |-> load_binary_file(raw)[r]]
         /\ StartsWithMagic(raw) => Len(load_binary_file(raw)) = count
         /\ \A r \in 1 .. count, e \in Nat :
              /\ StartsWithMagic(raw)
              /\ \A k \in 1 .. EntryWords : raw[HeaderWords + Span(r - 1) + k] = <<e, k>>
              => load_binary_file(raw)[r] = encode_log_entry(e)
<1> DEFINE payload == Payload(raw)
           records == Records(payload, EntryWords)
<1>1. HeaderWords \in Nat /\ EntryWords \in Nat \ {0} /\ Span(count) \in Nat
  BY BinaryLogAssumption, SpanFacts
<1>2. /\ payload \in Seq(Word) /\ Len(payload) = Span(count)
      /\ \A i \in 1 .. Span(count) : payload[i] = raw[HeaderWords + i]
  <2>1. HeaderWords <= Len(raw) /\ Len(raw) - HeaderWords = Span(count)
    BY <1>1
  <2> QED
    BY <2>1, PayloadWords
<1>3. Len(payload) \div EntryWords = count
  <2>1. (count * EntryWords) \div EntryWords = count
    BY <1>1
  <2> QED
    BY <1>2, <2>1 DEF Span
<1>4. records = [r \in 1 .. count |->
                   SubSeq(payload, (r - 1) * EntryWords + 1, r * EntryWords)]
  BY <1>3 DEF Records
<1>5. StartsWithMagic(raw) => load_binary_file(raw) = records
  BY DEF load_binary_file
<1> HIDE DEF payload, records
<1>6. Len(records) = count
  BY <1>4
<1>8. records = [r \in 1 .. count |-> records[r]]
  BY <1>4, Zenon
<1>7. ASSUME NEW r \in 1 .. count, NEW e \in Nat,
             \A k \in 1 .. EntryWords : raw[HeaderWords + Span(r - 1) + k] = <<e, k>>
      PROVE  records[r] = encode_log_entry(e)
  <2> DEFINE s == Span(r - 1)
             part == SubSeq(payload, s + 1, s + EntryWords)
             entry == encode_log_entry(e)
  <2>1. /\ r - 1 \in Nat /\ r - 1 < count /\ (r - 1) + 1 = r
    OBVIOUS
  <2>2. s \in Nat /\ Span(r) = s + EntryWords /\ s + EntryWords <= Span(count)
    BY <2>1, SpanFacts
  <2>3. records[r] = part
    BY <1>4, <2>2 DEF Span
  <2>4. entry = [k \in 1 .. EntryWords |-> <<e, k>>]
    BY DEF encode_log_entry, Words
  <2>5. ASSUME NEW k \in 1 .. EntryWords PROVE payload[s + k] = <<e, k>>
    <3>1. raw[HeaderWords + s + k] = <<e, k>>
      BY <1>7
    <3> HIDE DEF s
    <3>2. s + k \in 1 .. Span(count) /\ HeaderWords + (s + k) = HeaderWords + s + k
      BY <1>1, <2>2
    <3>3. payload[s + k] = raw[HeaderWords + (s + k)]
      BY <1>2, <3>2
    <3> QED
      BY <3>1, <3>2, <3>3
  <2> HIDE DEF s, entry
  <2>6. Len(part) = EntryWords
    BY <1>1, <1>2, <2>2
  <2>7. \A k \in 1 .. EntryWords : part[k] = payload[s + k]
    BY <1>1, <1>2, <2>2
  <2>8. part = [k \in 1 .. EntryWords |-> payload[s + k]]
    BY <1>1, <1>2, <2>2
  <2> HIDE DEF part
  <2>9. part = entry
    BY <2>4, <2>5, <2>8
  <2> QED
    BY <2>3, <2>9 DEF entry
<1> QED
  BY <1>5, <1>6, <1>7, <1>8

(* An undamaged log loads as its entries.                                  *)
LEMMA IntactLoads ==
  ASSUME NEW raw \in Seq(Word), NEW entries \in Seq(Nat), Intact(raw, entries)
  PROVE  /\ Loads(raw)
         /\ load_binary_file(raw) =
              [i \in 1 .. Len(entries) |-> encode_log_entry(entries[i])]
<1> DEFINE n == Len(entries)
           loaded == load_binary_file(raw)
<1>1. n \in Nat /\ HeaderWords \in Nat /\ EntryWords \in Nat \ {0}
  BY BinaryLogAssumption
<1>2. Span(n) \in Nat /\ n - 0 = n
  BY <1>1, SpanFacts
<1>3. Len(raw) = HeaderWords + Span(n)
  BY <1>1, <1>2 DEF Intact, Shape
<1>4. StartsWithMagic(raw) /\ HeaderIsValid(raw)
  <2>1. HeaderWords <= Len(raw)
    BY <1>1, <1>2, <1>3
  <2>2. \A k \in 1 .. HeaderWords : raw[k] = <<Header, k>>
    BY DEF Intact, Shape
  <2> QED
    BY <2>1, <2>2, HeaderIsFound
<1>5. ASSUME NEW r \in 1 .. n
      PROVE  loaded[r] = encode_log_entry(entries[r])
  <2>1. r > 0 /\ r - 0 - 1 = r - 1 /\ r - 1 \in Nat /\ entries[r] \in Nat
    BY <1>1
  <2>2. Span(r - 1) \in Nat
    BY <2>1, SpanFacts
  <2>3. ASSUME NEW k \in 1 .. EntryWords
        PROVE  raw[HeaderWords + Span(r - 1) + k] = <<entries[r], k>>
    <3>1. raw[HeaderWords + 0 + Span(r - 0 - 1) + k] = <<entries[r], k>>
      BY <2>1 DEF Intact, Shape
    <3> QED
      BY <1>1, <2>1, <2>2, <3>1
  <2> QED
    BY <1>1, <1>3, <1>4, <2>1, <2>3, RecordIsRead
<1>6. Len(loaded) = n
  BY <1>1, <1>3, <1>4, RecordIsRead
<1>7. loaded = [i \in 1 .. n |-> loaded[i]]
  BY <1>1, <1>3, <1>4, RecordIsRead
<1>8. Whole(Payload(raw), EntryWords)
  <2>1. Len(Payload(raw)) = Span(n)
    BY <1>1, <1>2, <1>3, PayloadWords
  <2>2. (n * EntryWords) % EntryWords = 0
    <3> HIDE DEF n
    <3>1. (n * EntryWords) \div EntryWords = n
      BY <1>1
    <3> QED
      BY <1>1, <3>1
  <2> QED
    BY <2>1, <2>2 DEF Whole, Span
<1> QED
  BY <1>1, <1>2, <1>3, <1>4, <1>5, <1>7, <1>8 DEF Loads

LEMMA WholeEntries ==
  ASSUME NEW len \in Nat, len % EntryWords = 0
  PROVE  len \div EntryWords \in Nat /\ Span(len \div EntryWords) = len
<1> DEFINE count == len \div EntryWords
<1>1. EntryWords \in Nat /\ EntryWords > 0
  BY BinaryLogAssumption
<1>2. /\ count \in Nat
      /\ len % EntryWords \in 0 .. EntryWords - 1
      /\ len = (EntryWords * count) + (len % EntryWords)
  BY <1>1
<1> HIDE DEF count
<1>3. len = EntryWords * count
  <2>1. EntryWords * count \in Nat
    BY <1>1, <1>2
  <2> QED
    BY <1>2, <2>1
<1>4. EntryWords * count = count * EntryWords
  BY <1>1, <1>2
<1> QED
  BY <1>2, <1>3, <1>4 DEF Span, count

(* A log from which one run of words is missing loads, if at all, as some  *)
(* of its entries in their order.                                          *)
LEMMA DamagedLoads ==
  ASSUME NEW raw \in Seq(Word), NEW entries \in Seq(Nat), Damaged(raw, entries),
         Loads(raw)
  PROVE  \E picked \in [1 .. Len(load_binary_file(raw)) -> 1 .. Len(entries)] :
           /\ \A i, j \in DOMAIN picked : i < j => picked[i] < picked[j]
           /\ \A i \in DOMAIN picked :
                load_binary_file(raw)[i] = encode_log_entry(entries[picked[i]])
<1>1. PICK words \in Nat, skipped \in 0 .. Len(entries) : Shape(raw, entries, words, skipped)
  BY DEF Damaged
<1> DEFINE n == Len(entries)
           m == n - skipped
           count == Len(Payload(raw)) \div EntryWords
           q == count - m
           loaded == load_binary_file(raw)
<1>2. /\ n \in Nat /\ skipped \in Nat /\ skipped <= n /\ m \in Nat /\ n = m + skipped
      /\ HeaderWords \in Nat /\ EntryWords \in Nat \ {0}
  BY BinaryLogAssumption
<1>3. Span(m) \in Nat /\ Len(raw) = HeaderWords + words + Span(m) /\ words <= Span(skipped)
  BY <1>1, <1>2, SpanFacts DEF Shape
<1>4. StartsWithMagic(raw)
  <2>1. \A k \in 1 .. HeaderWords : raw[k] = <<Header, k>>
    BY <1>1 DEF Shape
  <2>2. HeaderWords <= Len(raw)
    <3> DEFINE rest == Span(m)
    <3>1. rest \in Nat /\ Len(raw) = HeaderWords + words + rest
      BY <1>3
    <3> HIDE DEF rest
    <3> QED
      BY <1>2, <3>1
  <2> QED
    BY <2>1, <2>2, HeaderIsFound
(* The first words are whole entries, too. *)
<1>5. count \in Nat /\ Span(count) = words + Span(m)
  <2> DEFINE len == Len(Payload(raw))
  <2>1. len = words + Span(m)
    <3>1. HeaderWords <= Len(raw) /\ Len(raw) - HeaderWords = words + Span(m)
      BY <1>2, <1>3
    <3> HIDE DEF m
    <3> QED
      BY <3>1, PayloadWords
  <2>2. len % EntryWords = 0
    <3>1. raw # << >>
      BY <1>2, <1>4, BinaryLogAssumption DEF StartsWithMagic
    <3> QED
      BY <1>4, <3>1 DEF Loads, Whole
  <2>3. len \in Nat
    BY <1>3, <2>1
  <2>4. len \div EntryWords \in Nat /\ Span(len \div EntryWords) = len
    BY <2>2, <2>3, WholeEntries
  <2> QED
    BY <2>1, <2>4
<1>6. m <= count
  <2>1. ASSUME count < m PROVE FALSE
    <3>1. Span(count) + EntryWords <= Span(m)
      BY <1>2, <1>5, <2>1, SpanFacts
    <3> HIDE DEF count, m
    <3> QED
      BY <1>2, <1>3, <1>5, <3>1
  <2> HIDE DEF count, m
  <2> QED
    BY <1>2, <1>5, <2>1
<1>7. q \in Nat /\ count = q + m
  <2> HIDE DEF count, m
  <2> QED
    BY <1>2, <1>5, <1>6
<1>8. Span(q) = words
  <2>1. Span(count - m) = Span(count) - Span(m)
    BY <1>2, <1>5, <1>6, SpanFacts
  <2> HIDE DEF count, m
  <2> QED
    BY <1>3, <1>5, <2>1
<1>9. q <= skipped
  <2>1. ASSUME skipped < q PROVE FALSE
    <3>1. Span(skipped) + EntryWords <= Span(q)
      BY <1>2, <1>7, <2>1, SpanFacts
    <3>2. Span(skipped) \in Nat
      BY <1>2, SpanFacts
    <3> HIDE DEF q, m
    <3> QED
      BY <1>2, <1>3, <1>8, <3>1, <3>2
  <2> HIDE DEF q
  <2> QED
    BY <1>2, <1>7, <2>1
<1> HIDE DEF n, m, count, q, loaded
<1>10. Len(raw) = HeaderWords + Span(count)
  BY <1>2, <1>3, <1>5
<1>11. Len(loaded) = count
  BY <1>4, <1>5, <1>10, RecordIsRead DEF loaded
<1>12. ASSUME NEW r \in 1 .. q
       PROVE  r \in 1 .. n /\ loaded[r] = encode_log_entry(entries[r])
  <2>1. r \in 1 .. skipped /\ r \in 1 .. n /\ r \in 1 .. count /\ r - 1 \in Nat /\ r - 1 < q
    BY <1>2, <1>7, <1>9
  <2>2. entries[r] \in Nat
    BY <2>1 DEF n
  <2>3. Span(r - 1) \in Nat /\ Span(r - 1) + EntryWords <= Span(q)
    BY <1>7, <2>1, SpanFacts
  <2>4. ASSUME NEW k \in 1 .. EntryWords
        PROVE  raw[HeaderWords + Span(r - 1) + k] = <<entries[r], k>>
    <3>1. Span(r - 1) + k <= words
      BY <1>2, <1>8, <2>3
    <3> QED
      BY <1>1, <2>1, <3>1 DEF Shape
  <2>5. loaded[r] = encode_log_entry(entries[r])
    BY <1>4, <1>5, <1>10, <2>1, <2>2, <2>4, RecordIsRead DEF loaded
  <2> QED
    BY <2>1, <2>5
<1>13. ASSUME NEW i \in 1 .. m
       PROVE  /\ skipped + i \in 1 .. n
              /\ loaded[q + i] = encode_log_entry(entries[skipped + i])
  <2> DEFINE r == skipped + i
  <2>1. /\ r \in 1 .. n /\ r > skipped /\ q + i \in 1 .. count
        /\ r - skipped - 1 = i - 1 /\ i - 1 \in Nat /\ q + i - 1 \in Nat
        /\ q <= q + i - 1 /\ (q + i - 1) - q = i - 1
    BY <1>2, <1>7
  <2>2. entries[r] \in Nat
    BY <2>1 DEF n
  <2>3. Span(q + i - 1) \in Nat /\ Span(i - 1) \in Nat
    BY <2>1, SpanFacts
  <2>4. Span((q + i - 1) - q) = Span(q + i - 1) - Span(q)
    BY <1>7, <2>1, SpanFacts
  <2>5. Span(q + i - 1) = words + Span(i - 1)
    <3>1. Span((q + i - 1) - q) = Span(i - 1)
      BY <2>1
    <3> QED
      BY <1>8, <2>3, <2>4, <3>1
  <2>6. ASSUME NEW k \in 1 .. EntryWords
        PROVE  raw[HeaderWords + Span((q + i) - 1) + k] = <<entries[r], k>>
    <3>1. raw[HeaderWords + words + Span(r - skipped - 1) + k] = <<entries[r], k>>
      BY <1>1, <2>1 DEF Shape, n
    <3>2. r - skipped - 1 = i - 1 /\ (q + i) - 1 = q + i - 1
      BY <2>1, <1>7
    <3>3. HeaderWords + words + Span(i - 1) + k = HeaderWords + (words + Span(i - 1)) + k
      BY <1>2, <2>3
    <3> HIDE DEF r
    <3> QED
      BY <2>5, <3>1, <3>2, <3>3
  <2>7. loaded[q + i] = encode_log_entry(entries[r])
    BY <1>4, <1>5, <1>10, <2>1, <2>2, <2>6, RecordIsRead DEF loaded
  <2> QED
    BY <2>1, <2>7
<1> DEFINE picked == [i \in 1 .. count |-> IF i <= q THEN i ELSE skipped + (i - q)]
<1>14. ASSUME NEW i \in 1 .. count
       PROVE  /\ picked[i] \in 1 .. n
              /\ loaded[i] = encode_log_entry(entries[picked[i]])
  <2>1. CASE i <= q
    BY <1>5, <1>7, <1>12, <2>1
  <2>2. CASE ~(i <= q)
    <3>1. i - q \in 1 .. m /\ q + (i - q) = i
      BY <1>2, <1>5, <1>7, <2>2
    <3>2. picked[i] = skipped + (i - q)
      BY <2>2
    <3> HIDE DEF picked
    <3> QED
      BY <1>13, <3>1, <3>2
  <2> QED
    BY <2>1, <2>2
<1>15. picked \in [1 .. count -> 1 .. n]
  BY <1>14
<1>16. \A i, j \in 1 .. count : i < j => picked[i] < picked[j]
  BY <1>2, <1>5, <1>7, <1>9
<1> HIDE DEF picked
<1>17. DOMAIN picked = 1 .. count
  BY <1>15
<1> QED
  BY <1>11, <1>14, <1>15, <1>16, <1>17 DEF loaded, n

(* What a kill leaves of the header does not load, unless it is nothing.   *)
LEMMA HeaderLoads ==
  ASSUME NEW n \in 0 .. HeaderWords - 1,
         NEW raw, raw = SubSeq(encode_log_header, 1, n), Loads(raw)
  PROVE  Len(load_binary_file(raw)) = 0
<1>1. /\ HeaderWords \in Nat /\ MagicWords \in Nat /\ MagicWords >= 1
      /\ LegacyWords \in Nat /\ MagicWords <= LegacyWords
  BY BinaryLogAssumption
<1>2. Len(raw) = n /\ raw \in Seq(Word)
  BY <1>1, EncodedHeader
<1>3. ASSUME n > 0 PROVE FALSE
  <2>1. raw # << >>
    <3>1. Len(<< >>) = 0
      OBVIOUS
    <3> QED
      BY ONLY <1>2, <1>3, <3>1
  <2>2. ~(Len(raw) >= HeaderWords)
    BY <1>1, <1>2
  <2>3. ~StartsWithMagic(raw) /\ n % LegacyWords = 0
    BY <1>2, <2>1, <2>2 DEF Loads, HeaderIsValid, Whole
  <2>4. n < MagicWords
    <3>1. ASSUME n >= MagicWords PROVE FALSE
      <4> DEFINE header == encode_log_header
      <4>1. header \in Seq(Word) /\ Len(header) = HeaderWords /\ raw = SubSeq(header, 1, n)
        BY EncodedHeader
      <4> HIDE DEF header
      <4>2. SubSeq(raw, 1, MagicWords) = SubSeq(header, 1, MagicWords)
        BY <1>1, <1>2, <3>1, <4>1
      <4> QED
        BY <1>2, <2>3, <3>1, <4>2 DEF StartsWithMagic, header
    <3> QED
      BY <1>1, <3>1
  <2>5. n % LegacyWords = n
    BY <1>1, <1>3, <2>4
  <2> QED
    BY <1>3, <2>3, <2>5
<1>4. n = 0 /\ Len(raw) = 0
  BY <1>2, <1>3
<1>5. ~StartsWithMagic(raw)
  BY <1>1, <1>4 DEF StartsWithMagic
<1>6. 0 \div LegacyWords = 0
  BY <1>1
<1>7. load_binary_file(raw) = [r \in 1 .. 0 |-> SubSeq(raw, (r - 1) * LegacyWords + 1, r * LegacyWords)]
  BY <1>4, <1>5, <1>6 DEF load_binary_file, Records
<1> QED
  BY <1>7

-----------------------------------------------------------------------------
(* The shape of a log under flush() and log().                             *)

LEMMA ContentType ==
  ASSUME NEW l \in Logger
  PROVE  /\ l.file \in Seq(Word) /\ l.buffer \in Seq(Word) /\ l.stdio \in Seq(Word)
         /\ Pending(l) \in Seq(Word)
         /\ Content(l) \in Seq(Word)
         /\ Len(Content(l)) = Len(l.file) + Len(Pending(l))
<1>1. l.file \in Seq(Word) /\ l.buffer \in Seq(Word) /\ l.stdio \in Seq(Word)
  BY DEF Logger
<1>2. Pending(l) \in Seq(Word)
  BY <1>1, ConcatProperties DEF Pending
<1> QED
  BY <1>1, <1>2, ConcatProperties DEF Content

LEMMA PartOfWhole ==
  ASSUME NEW s \in Seq(Word), NEW t \in Seq(Word), NEW n \in 0 .. Len(t)
  PROVE  /\ s \o SubSeq(t, 1, n) \in Seq(Word)
         /\ Len(s \o SubSeq(t, 1, n)) = Len(s) + n
         /\ s \o SubSeq(t, 1, n) = SubSeq(s \o t, 1, Len(s) + n)
<1> DEFINE part == SubSeq(t, 1, n)
           whole == s \o t
           last == Len(s) + n
           file == s \o part
           taken == SubSeq(whole, 1, last)
<1>1. part \in Seq(Word) /\ Len(part) = n /\ \A i \in 1 .. n : part[i] = t[i]
  OBVIOUS
<1>2. whole \in Seq(Word) /\ Len(whole) = Len(s) + Len(t)
  BY ConcatProperties
<1> HIDE DEF part
<1>3. file \in Seq(Word) /\ Len(file) = last
  BY <1>1, ConcatProperties
<1>4. last \in 0 .. Len(whole) /\ last \in Nat
  BY <1>2
<1>5. /\ \A i \in 1 .. last :
           file[i] = IF i <= Len(s) THEN s[i] ELSE part[i - Len(s)]
      /\ \A i \in 1 .. Len(s) + Len(t) :
           whole[i] = IF i <= Len(s) THEN s[i] ELSE t[i - Len(s)]
  BY <1>1, ConcatProperties
<1> HIDE DEF whole, file
<1>6. ASSUME NEW i \in 1 .. last PROVE file[i] = whole[i]
  <2>1. CASE i <= Len(s)
    <3>1. i \in 1 .. Len(s) + Len(t)
      BY <2>1
    <3> QED
      BY <1>5, <2>1, <3>1
  <2>2. CASE ~(i <= Len(s))
    <3>1. i - Len(s) \in 1 .. n /\ i \in 1 .. Len(s) + Len(t)
      BY <2>2
    <3> QED
      BY <1>1, <1>5, <2>2, <3>1
  <2> QED
    BY <2>1, <2>2
<1> HIDE DEF last
<1>7. /\ taken \in Seq(Word) /\ Len(taken) = last
      /\ \A i \in 1 .. last : taken[i] = whole[i]
  BY <1>2, <1>4
<1> HIDE DEF taken
<1>8. file = taken
  BY <1>3, <1>6, <1>7, SeqEqual
<1> QED
  BY <1>3, <1>8 DEF part, whole, last, file, taken

(* A flush leaves a beginning of what it was given.                        *)
LEMMA FlushTakes ==
  ASSUME NEW l \in Logger, NEW written \in 0 .. Len(Pending(l))
  PROVE  /\ flush(l, written) \in Logger
         /\ Pending(flush(l, written)) = << >>
         /\ flush(l, written).file = SubSeq(Content(l), 1, Len(l.file) + written)
         /\ Content(flush(l, written)) = flush(l, written).file
<1> DEFINE file == l.file \o SubSeq(Pending(l), 1, written)
           f == flush(l, written)
<1>1. l.file \in Seq(Word) /\ Pending(l) \in Seq(Word)
  BY ContentType
<1>2. /\ file \in Seq(Word)
      /\ file = SubSeq(Content(l), 1, Len(l.file) + written)
  BY <1>1, PartOfWhole DEF Content
<1>3. f = [buffer |-> << >>, stdio |-> << >>, file |-> file]
  BY DEF flush
<1> HIDE DEF file, f
<1>4. file \o << >> = file
  BY <1>2, ConcatEmptySeq
<1>5. << >> \in Seq(Word)
  OBVIOUS
<1>6. << >> \o << >> = << >>
  BY <1>5, ConcatEmptySeq
<1>7. f \in Logger /\ f.file = file /\ Pending(f) = << >>
  BY <1>2, <1>3, <1>5, <1>6 DEF Logger, Pending
<1> QED
  BY <1>2, <1>4, <1>7 DEF Content, f

(* A flush keeps the log, and one that is cut short damages it once more.  *)
LEMMA FlushKeeps ==
  ASSUME NEW l \in Logger, NEW entries \in Seq(Nat), NEW cut \in Nat, Logs(l, entries, cut),
         NEW written \in 0 .. Len(Pending(l))
  PROVE  Logs(flush(l, written), entries, IF written < Len(Pending(l)) THEN cut + 1 ELSE cut)
<1> DEFINE f == flush(l, written)
           old == Len(l.file)
           new == Len(Pending(l))
           now == IF written < new THEN cut + 1 ELSE cut
           taken == old + written
           whole == Content(l)
<1>1. Content(f) = SubSeq(whole, 1, taken)
  BY FlushTakes
<1>2. /\ old \in Nat /\ new \in Nat /\ HeaderWords \in Nat
      /\ whole \in Seq(Word) /\ Len(whole) = old + new
  <2>1. l.file \in Seq(Word) /\ Pending(l) \in Seq(Word)
    BY ContentType
  <2>2. old \in Nat /\ new \in Nat
    BY <2>1
  <2> QED
    BY <2>2, ContentType, BinaryLogAssumption
<1>3. written \in 0 .. new
  OBVIOUS
<1> HIDE DEF f, whole, old, new
<1>4. taken \in Nat /\ taken <= Len(whole)
  BY <1>2, <1>3
<1>5. CASE written = new
  <2>1. taken = Len(whole) /\ now = cut
    BY <1>2, <1>5
  <2>2. Content(f) = whole
    BY <1>1, <1>2, <2>1, SubSeqFull
  <2>3. /\ cut = 0 => Intact(whole, entries)
        /\ cut = 1 => Damaged(whole, entries) \/ Headless(whole)
    BY DEF Logs, whole
  <2> HIDE DEF now, taken
  <2> QED
    BY <2>1, <2>2, <2>3 DEF Logs, f, now, new
<1>6. CASE written < new
  <2>1. now = cut + 1
    BY <1>6
  <2>2. now = 1 => Damaged(Content(f), entries) \/ Headless(Content(f))
    <3>1. ASSUME now = 1 PROVE Damaged(Content(f), entries) \/ Headless(Content(f))
      <4>1. cut = 0
        BY <2>1, <3>1
      <4>2. Intact(whole, entries)
        BY <4>1 DEF Logs, whole
      <4>3. CASE taken < HeaderWords
        BY <1>1, <1>2, <1>4, <4>3, HeaderIsLost
      <4>4. CASE ~(taken < HeaderWords)
        <5>1. taken \in HeaderWords .. Len(whole)
          BY <1>2, <1>4, <4>4
        <5> QED
          BY <1>1, <1>2, <4>2, <5>1, EndIsLost
      <4> QED
        BY <4>3, <4>4
    <3> QED
      BY <3>1
  <2>3. now # 0
    BY <2>1
  <2> HIDE DEF now, taken
  <2> QED
    BY <2>2, <2>3 DEF Logs, f, now, new
<1>7. written = new \/ written < new
  BY <1>2, <1>3
<1> QED
  BY <1>5, <1>6, <1>7

(* An entry goes into the buffer.                                          *)
LEMMA EntryKeeps ==
  ASSUME NEW l \in Logger, NEW entries \in Seq(Nat), NEW cut \in Nat, Logs(l, entries, cut),
         NEW e \in Nat
  PROVE  LET m == [l EXCEPT !.buffer = @ \o encode_log_entry(e)]
         IN  m \in Logger /\ Logs(m, Append(entries, e), cut)
<1> DEFINE entry == encode_log_entry(e)
           m == [l EXCEPT !.buffer = @ \o entry]
<1>1. /\ l.file \in Seq(Word) /\ l.buffer \in Seq(Word) /\ l.stdio \in Seq(Word)
      /\ Pending(l) \in Seq(Word) /\ Content(l) \in Seq(Word)
  BY ContentType
<1>2. entry \in Seq(Word)
  BY EncodedEntry
<1> HIDE DEF entry
<1>3. m.file = l.file /\ m.stdio = l.stdio /\ m.buffer = l.buffer \o entry
  BY DEF Logger
<1>4. m \in Logger
  <2>1. l.buffer \o entry \in Seq(Word)
    BY <1>1, <1>2, ConcatProperties
  <2> QED
    BY <2>1 DEF Logger
<1>5. Content(m) = Content(l) \o entry
  <2> DEFINE s == l.file
             b == l.buffer
             h == l.stdio
             t == Pending(l)
  <2>1. s \in Seq(Word) /\ b \in Seq(Word) /\ h \in Seq(Word) /\ t \in Seq(Word)
    BY <1>1
  <2>2. t = h \o b /\ Pending(m) = h \o (b \o entry)
    BY <1>3 DEF Pending
  <2>3. Content(l) = s \o t /\ Content(m) = s \o Pending(m)
    BY <1>3 DEF Content
  <2> HIDE DEF s, b, h, t, m
  <2>4. (h \o b) \o entry = h \o (b \o entry)
    <3>1. h \in Seq(Word) /\ b \in Seq(Word)
      BY ONLY <2>1
    <3> QED
      BY ONLY <3>1, <1>2, ConcatAssociative
  <2>5. (s \o t) \o entry = s \o (t \o entry)
    BY ONLY <2>1, <1>2, ConcatAssociative
  <2> QED
    BY ONLY <2>2, <2>3, <2>4, <2>5
<1>6. ASSUME Intact(Content(l), entries)
      PROVE  Intact(Content(m), Append(entries, e))
  <2>1. 0 \in Nat /\ 0 \in 0 .. Len(entries)
    OBVIOUS
  <2> QED
    BY <1>1, <1>5, <1>6, <2>1, EntryAppends DEF Intact, entry
<1>7. ASSUME Damaged(Content(l), entries)
      PROVE  Damaged(Content(m), Append(entries, e))
  <2>1. PICK words \in Nat, skipped \in 0 .. Len(entries) :
          Shape(Content(l), entries, words, skipped)
    BY <1>7 DEF Damaged
  <2>2. Shape(Content(m), Append(entries, e), words, skipped)
    BY <1>1, <1>5, <2>1, EntryAppends DEF entry
  <2>3. skipped \in 0 .. Len(Append(entries, e))
    OBVIOUS
  <2> QED
    BY <2>2, <2>3 DEF Damaged
<1>8. Headless(Content(l)) => Headless(Content(m))
  BY <1>1, <1>5, StaysHeadless DEF entry
<1>9. Logs(m, Append(entries, e), cut)
  BY <1>6, <1>7, <1>8 DEF Logs
<1> QED
  BY <1>4, <1>9 DEF entry

(* A kill leaves what was written and a part of what was not.              *)
LEMMA RemainsPart ==
  ASSUME NEW l \in Logger, NEW flushing \in BOOLEAN, NEW file \in Remains(l, flushing)
  PROVE  \E more \in 0 .. Len(Pending(l)) : file = l.file \o SubSeq(Pending(l), 1, more)
<1> DEFINE all == Len(Pending(l))
           most == IF flushing THEN all ELSE 0
           Left(n) == l.file \o SubSeq(Pending(l), 1, n)
<1>1. all \in Nat
  <2>1. Pending(l) \in Seq(Word)
    BY ContentType
  <2> QED
    BY <2>1
<1>2. \E n \in 0 .. most : file = Left(n)
  BY DEF Remains
<1> HIDE DEF all, Left
<1>3. PICK n \in 0 .. most : file = Left(n)
  BY <1>2
<1>4. n \in 0 .. all
  BY <1>1
<1> QED
  BY <1>3, <1>4 DEF all, Left

(* What a kill leaves of an undamaged log.                                 *)
LEMMA KillLeaves ==
  ASSUME NEW l \in Logger, NEW entries \in Seq(Nat), Logs(l, entries, 0),
         NEW flushing \in BOOLEAN, NEW file \in Remains(l, flushing)
  PROVE  \/ Damaged(file, entries)
         \/ \E n \in 0 .. HeaderWords - 1 : file = SubSeq(encode_log_header, 1, n)
<1> DEFINE whole == Content(l)
           old == Len(l.file)
<1>1. /\ l.file \in Seq(Word) /\ Pending(l) \in Seq(Word)
      /\ whole \in Seq(Word) /\ Len(whole) = old + Len(Pending(l))
      /\ Intact(whole, entries)
  BY ContentType DEF Logs
<1>2. HeaderWords \in Nat /\ old \in Nat /\ Len(Pending(l)) \in Nat
  BY <1>1, BinaryLogAssumption
<1>3. PICK more \in 0 .. Len(Pending(l)) : file = l.file \o SubSeq(Pending(l), 1, more)
  BY RemainsPart
<1> DEFINE n == old + more
<1>4. file = SubSeq(whole, 1, n)
  BY <1>1, <1>3, PartOfWhole DEF Content
<1> HIDE DEF whole, old
<1>5. n \in Nat /\ n <= Len(whole) /\ n \in 0 .. Len(whole)
  BY <1>1, <1>2, <1>3
<1>6. file = SubSeq(whole, 1, n)
  BY <1>4
<1> HIDE DEF n
<1>7. CASE HeaderWords <= n
  <2>1. n \in HeaderWords .. Len(whole)
    BY <1>2, <1>5, <1>7
  <2> QED
    BY <1>1, <1>6, <2>1, EndIsLost
<1>8. CASE n < HeaderWords
  <2> DEFINE header == encode_log_header
             part == SubSeq(header, 1, n)
  <2>1. /\ header \in Seq(Word) /\ Len(header) = HeaderWords
        /\ \A k \in 1 .. HeaderWords : header[k] = <<Header, k>>
    BY EncodedHeader
  <2>2. \A k \in 1 .. HeaderWords : whole[k] = <<Header, k>>
    BY <1>1 DEF Intact, Shape
  <2> HIDE DEF header
  <2>3. /\ part \in Seq(Word) /\ Len(part) = n
        /\ \A i \in 1 .. n : part[i] = header[i]
    BY <1>2, <1>5, <1>8, <2>1
  <2>4. /\ file \in Seq(Word) /\ Len(file) = n
        /\ \A i \in 1 .. n : file[i] = whole[i]
    BY <1>1, <1>5, <1>6
  <2> HIDE DEF part
  <2>5. \A i \in 1 .. n : i \in 1 .. HeaderWords
    BY <1>2, <1>5, <1>8
  <2>6. \A i \in 1 .. n : file[i] = part[i]
    BY <2>1, <2>2, <2>3, <2>4, <2>5
  <2>7. file = part
    BY <2>3, <2>4, <2>6, SeqEqual
  <2>8. n \in 0 .. HeaderWords - 1
    BY <1>2, <1>5, <1>8
  <2> QED
    BY <2>7, <2>8 DEF part, header
<1> QED
  BY <1>2, <1>5, <1>7, <1>8

LEMMA RemainsType ==
  ASSUME NEW l \in Logger, NEW flushing \in BOOLEAN, NEW file \in Remains(l, flushing)
  PROVE  file \in Seq(Word)
<1>1. l.file \in Seq(Word) /\ Pending(l) \in Seq(Word)
  BY ContentType
<1>2. PICK more \in 0 .. Len(Pending(l)) : file = l.file \o SubSeq(Pending(l), 1, more)
  BY RemainsPart
<1> QED
  BY <1>1, <1>2, PartOfWhole

-----------------------------------------------------------------------------
(* The invariant holds.                                                    *)

LEMMA InitInv == Init => Inv
<1> SUFFICES ASSUME Init PROVE Inv
  OBVIOUS
<1>1. /\ logger.buffer = << >> /\ logger.stdio = encode_log_header /\ logger.file = << >>
      /\ logger \in Logger
  BY EncodedHeader DEF Init, NewLogger, Logger
<1>2. TypeInv
  <2>1. packet \in Packet
    BY SyncAssumption DEF Init, NoPacket, Packet
  <2>2. stats \in [Counter -> Nat]
    BY DEF Init
  <2>3. processed \in Seq(Packet) /\ logged \in Seq(Nat)
    BY DEF Init
  <2> QED
    BY <1>1, <2>1, <2>2, <2>3 DEF Init, TypeInv, NotExited
<1>3. PacketInv
  BY SyncAssumption DEF Init, PacketInv, Counter, NotExited, Killed
<1>4. LoggerInv
  <2>1. Content(logger) = encode_log_header
    BY <1>1, EncodedHeader, ConcatEmptySeq DEF Content, Pending
  <2>2. Intact(Content(logger), logged)
    BY <2>1, HeaderIsIntact DEF Init
  <2> QED
    BY <1>1, <2>2 DEF Init, LoggerInv, Logs
<1>5. KillInv
  BY DEF Init, KillInv, NotExited, Killed
<1> QED
  BY <1>2, <1>3, <1>4, <1>5 DEF Inv

(* A step of a receiver that runs on and does not touch the log.           *)
LEMMA LogUntouched ==
  ASSUME Inv, UNCHANGED logVars, exit_code # Killed, exit_code' # Killed,
         pc' = "setup" => pc = "setup",
         pc' = "exit" => pc = "setup" /\ exit_code' # 0
  PROVE  LoggerInv' /\ KillInv'
<1>1. logger' = logger /\ logged' = logged /\ shorts' = shorts
  BY DEF logVars
<1>2. LoggerInv'
  <2>1. Logs(logger', logged', shorts')
    BY <1>1 DEF Inv, LoggerInv
  <2> QED
    BY <1>1, <2>1 DEF Inv, LoggerInv
<1> QED
  BY <1>2 DEF KillInv

(* The counters as numbers. *)
LEMMA CountersAreNumbers ==
  ASSUME TypeInv
  PROVE  stats["valid"] \in Nat /\ stats["datagrams_received"] \in Nat /\ MaxDatagrams \in Nat
BY SyncAssumption DEF TypeInv, Counter

(* Steps that only move the receiver on. *)
LEMMA MovesKeep ==
  ASSUME Inv, \/ Sigint \/ Start \/ Loop \/ Timeout \/ BatchEnd \/ ReadInterrupted
              \/ \E code \in {1, 2} : SetupFails(code)
  PROVE  Inv'
<1>1. /\ UNCHANGED <<variant, remaining, packet, stats, processed, logVars>>
      /\ pc # "exit"
      /\ pc' = pc \/ (pc # "process" /\ pc' # "process")
      /\ pc' \in {"setup", "loop", "recv", "batch", "process", "left", "report", "exit"}
      /\ pc' = "setup" => pc = "setup"
      /\ pc' = "exit" => pc = "setup" /\ exit_code' # 0
      /\ interrupted' \in BOOLEAN /\ stop_requested' \in BOOLEAN
      /\ \/ exit_code' = exit_code /\ pc' # "exit"
         \/ exit_code' \in {1, 2} /\ pc' = "exit"
  <2>1. CASE Sigint \/ Start \/ Loop \/ Timeout \/ BatchEnd \/ ReadInterrupted
    BY <2>1 DEF Inv, TypeInv, Sigint, Start, Loop, Timeout, BatchEnd, ReadInterrupted
  <2>2. ASSUME NEW code \in {1, 2}, SetupFails(code)
        PROVE  /\ pc = "setup" /\ pc' = "exit" /\ exit_code' \in {1, 2} /\ exit_code' # 0
               /\ UNCHANGED <<variant, remaining, packet, stats, processed, logVars>>
               /\ interrupted' \in BOOLEAN /\ stop_requested' \in BOOLEAN
    BY <2>2 DEF Inv, TypeInv, SetupFails
  <2> QED
    BY <2>1, <2>2
<1>2. exit_code = NotExited
  BY <1>1 DEF Inv, PacketInv
<1>3. exit_code # Killed /\ exit_code' # Killed /\ (exit_code' = NotExited <=> pc' # "exit")
      /\ exit_code' \in {NotExited, 0, 1, 2, Killed}
  BY <1>1, <1>2 DEF NotExited, Killed
<1>4. TypeInv'
  BY <1>1, <1>3 DEF Inv, TypeInv, logVars
<1>5. PacketInv'
  BY <1>1, <1>3 DEF Inv, PacketInv
<1>6. LoggerInv' /\ KillInv'
  BY <1>1, <1>3, LogUntouched
<1> QED
  BY <1>4, <1>5, <1>6 DEF Inv

LEMMA ReceiveKeeps ==
  ASSUME Inv, NEW n \in 1 .. MaxDatagrams, Receive(n)
  PROVE  Inv'
<1>1. /\ pc = "recv" /\ pc' = "batch" /\ n \in Nat
      /\ remaining' = n /\ stats["datagrams_received"] + n <= MaxDatagrams
      /\ UNCHANGED <<variant, packet, stats, processed, logVars, interrupted,
                     stop_requested, exit_code>>
  BY SyncAssumption DEF Receive
<1>2. exit_code = NotExited /\ exit_code # Killed
  BY <1>1 DEF Inv, PacketInv, NotExited, Killed
<1>3. TypeInv'
  BY <1>1 DEF Inv, TypeInv, logVars
<1>4. PacketInv'
  BY <1>1, <1>2 DEF Inv, PacketInv
<1>5. LoggerInv' /\ KillInv'
  BY <1>1, <1>2, LogUntouched
<1> QED
  BY <1>3, <1>4, <1>5 DEF Inv

LEMMA ErrorKeeps ==
  ASSUME Inv, Error
  PROVE  Inv'
<1>1. /\ pc = "recv" /\ pc' = "left"
      /\ stats' = [stats EXCEPT !["socket_errors"] = @ + 1]
      /\ UNCHANGED <<variant, remaining, packet, processed, logVars, interrupted,
                     stop_requested, exit_code>>
  BY DEF Error
<1>2. exit_code = NotExited /\ exit_code # Killed
  BY <1>1 DEF Inv, PacketInv, NotExited, Killed
<1>3. stats' \in [Counter -> Nat]
  BY <1>1 DEF Inv, TypeInv, Counter
<1>4. stats'["valid"] = stats["valid"] /\ stats'["datagrams_received"] = stats["datagrams_received"]
  BY <1>1 DEF Inv, TypeInv, Counter
<1>5. TypeInv'
  BY <1>1, <1>3 DEF Inv, TypeInv, logVars
<1>6. PacketInv'
  BY <1>1, <1>2, <1>4 DEF Inv, PacketInv
<1>7. LoggerInv' /\ KillInv'
  BY <1>1, <1>2, LogUntouched
<1> QED
  BY <1>5, <1>6, <1>7 DEF Inv

(* What a datagram does to the counters that the packets are held to.      *)
LEMMA DatagramCounts ==
  ASSUME TypeInv, NEW d \in Datagram, HandleDatagram(d)
  PROVE  /\ stats' \in [Counter -> Nat]
         /\ stats'["datagrams_received"] = stats["datagrams_received"] + 1
         /\ stats'["valid"] = IF Processable(d) THEN stats["valid"] + 1 ELSE stats["valid"]
         /\ pc' = IF Processable(d) THEN "process" ELSE pc
         /\ Processable(d) => /\ packet'.seq = stats["valid"]
                              /\ packet'.sampled \in BOOLEAN
                              /\ packet' = [seq |-> packet'.seq, sampled |-> packet'.sampled]
         /\ ~Processable(d) => packet' = packet
<1> DEFINE sampled == d.kind = "valid" /\ Sampled(stats["valid"])
           counted == {"datagrams_received", d.kind}
                        \union (IF LooksTruncated(d) THEN {"truncated_packets"} ELSE {})
                        \union (IF sampled THEN {"sampled_packets"} ELSE {})
<1>1. stats' = [c \in Counter |-> IF c \in counted THEN stats[c] + 1 ELSE stats[c]]
  BY DEF HandleDatagram
<1>2. stats \in [Counter -> Nat]
  BY DEF TypeInv
<1>3. "datagrams_received" \in counted /\ ("valid" \in counted <=> d.kind = "valid")
  OBVIOUS
<1> HIDE DEF counted
<1>4. stats' \in [Counter -> Nat]
  BY <1>1, <1>2
<1>5. "datagrams_received" \in Counter /\ "valid" \in Counter
  BY DEF Counter
<1>6. sampled \in BOOLEAN
  OBVIOUS
<1>7. IF Processable(d)
        THEN packet' = [seq |-> stats["valid"], sampled |-> sampled] /\ pc' = "process"
        ELSE packet' = packet /\ pc' = pc
  BY DEF HandleDatagram
<1> HIDE DEF sampled
<1> QED
  BY <1>1, <1>2, <1>3, <1>4, <1>5, <1>6, <1>7 DEF Processable

LEMMA DatagramKeeps ==
  ASSUME Inv, NEW d \in Datagram, HandleDatagram(d)
  PROVE  Inv'
<1>1. /\ pc = "batch" /\ remaining > 0 /\ remaining' = remaining - 1
      /\ UNCHANGED <<variant, processed, logVars, interrupted, stop_requested, exit_code>>
  BY DEF HandleDatagram
<1>2. exit_code = NotExited /\ exit_code # Killed
  BY <1>1 DEF Inv, PacketInv, NotExited, Killed
<1>3. /\ stats["valid"] \in Nat /\ stats["datagrams_received"] \in Nat /\ MaxDatagrams \in Nat
      /\ stats["valid"] <= stats["datagrams_received"]
      /\ stats["datagrams_received"] + remaining <= MaxDatagrams
      /\ remaining \in Nat
      /\ Len(processed) = stats["valid"]
  BY <1>1, <1>2, CountersAreNumbers DEF Inv, TypeInv, PacketInv
<1>4. TypeInv'
  <2>1. packet' \in Packet
    <3>1. CASE Processable(d)
      <4>1. stats["valid"] \in 0 .. MaxDatagrams
        BY <1>1, <1>3
      <4> QED
        BY <3>1, <4>1, DatagramCounts DEF Inv, Packet
    <3>2. CASE ~Processable(d)
      BY <3>2, DatagramCounts DEF Inv, TypeInv
    <3> QED
      BY <3>1, <3>2
  <2>2. remaining' \in Nat
    BY <1>1, <1>3
  <2>3. stats' \in [Counter -> Nat]
    BY DatagramCounts DEF Inv
  <2>4. pc' \in {"batch", "process"}
    BY <1>1, DatagramCounts DEF Inv
  <2> QED
    BY <1>1, <2>1, <2>2, <2>3, <2>4 DEF Inv, TypeInv, logVars
<1>5. PacketInv'
  <2>1. /\ stats'["datagrams_received"] = stats["datagrams_received"] + 1
        /\ \/ stats'["valid"] = stats["valid"] + 1 /\ pc' = "process"
           \/ stats'["valid"] = stats["valid"] /\ pc' = "batch"
    BY <1>1, DatagramCounts DEF Inv
  <2> DEFINE v == stats["valid"]
             r == stats["datagrams_received"]
             w == stats'["valid"]
             s == stats'["datagrams_received"]
  <2>2. /\ s = r + 1
        /\ v \in Nat /\ r \in Nat /\ v <= r /\ r + remaining <= MaxDatagrams
        /\ (w = v + 1 /\ pc' = "process") \/ (w = v /\ pc' = "batch")
        /\ Len(processed') = v
    <3>1. Len(processed') = v
      BY <1>1, <1>3
    <3> QED
      BY <1>3, <2>1, <3>1
  <2> HIDE DEF v, r, w, s
  <2>3. w <= s /\ s + remaining' <= MaxDatagrams
    BY <1>1, <1>3, <2>2
  <2>4. pc' = "process" => Len(processed') + 1 = w
    BY <2>2
  <2>5. pc' # "process" => Len(processed') = w
    BY <2>2
  <2>6. exit_code' = NotExited <=> pc' # "exit"
    BY <1>1, <1>2, <2>2
  <2> QED
    BY <2>3, <2>4, <2>5, <2>6 DEF PacketInv, v, r, w, s
<1>6. LoggerInv' /\ KillInv'
  <2>1. pc' \notin {"setup", "exit"}
    BY <1>1, DatagramCounts DEF Inv
  <2> QED
    BY <1>1, <1>2, <2>1, LogUntouched
<1> QED
  BY <1>4, <1>5, <1>6 DEF Inv

(* What Writes says of a flush.                                            *)
LEMMA WriteCounts ==
  ASSUME TypeInv, NEW flushes \in BOOLEAN, NEW written \in Nat, Writes(flushes, written)
  PROVE  /\ written \in 0 .. Len(Pending(logger))
         /\ shorts' \in Nat
         /\ flushes => shorts' = IF written < Len(Pending(logger)) THEN shorts + 1 ELSE shorts
         /\ ~flushes => shorts' = shorts
<1>1. Len(Pending(logger)) \in Nat /\ shorts \in Nat
  <2>1. Pending(logger) \in Seq(Word)
    BY ContentType DEF TypeInv
  <2> QED
    BY <2>1 DEF TypeInv
<1> QED
  BY <1>1 DEF Writes

LEMMA ProcessKeeps ==
  ASSUME Inv, NEW written \in 0 .. HeaderWords + BufferWords, Process(written)
  PROVE  Inv'
<1> DEFINE flushes == packet.sampled /\ LogFlushes(logger)
           entry == encode_log_entry(packet.seq)
<1>1. /\ pc = "process" /\ pc' = "batch" /\ written \in Nat
      /\ Writes(flushes, written)
      /\ processed' = Append(processed, packet)
      /\ logged' = logged \o Logged(packet)
      /\ logger' = IF packet.sampled THEN log(logger, packet.seq, written) ELSE logger
      /\ UNCHANGED <<variant, remaining, packet, stats, interrupted, stop_requested, exit_code>>
  BY BinaryLogAssumption DEF Process
<1>2. exit_code = NotExited /\ exit_code # Killed
  BY <1>1 DEF Inv, PacketInv, NotExited, Killed
<1>3. /\ packet \in Packet /\ packet.seq \in Nat /\ packet.sampled \in BOOLEAN
      /\ logged \in Seq(Nat) /\ logger \in Logger /\ shorts \in Nat
      /\ processed \in Seq(Packet)
      /\ Logs(logger, logged, shorts)
  BY <1>2, SyncAssumption DEF Inv, TypeInv, LoggerInv, Packet
<1>4. flushes \in BOOLEAN
  BY <1>3
<1>5. /\ written \in 0 .. Len(Pending(logger))
      /\ shorts' \in Nat
      /\ flushes => shorts' = IF written < Len(Pending(logger)) THEN shorts + 1 ELSE shorts
      /\ ~flushes => shorts' = shorts
  <2> HIDE DEF flushes
  <2> QED
    BY <1>1, <1>4, WriteCounts DEF Inv
<1>6. logged' \in Seq(Nat) /\ logger' \in Logger /\ Logs(logger', logged', shorts')
  <2>1. CASE packet.sampled
    <3> DEFINE base == IF LogFlushes(logger) THEN flush(logger, written) ELSE logger
               next == [base EXCEPT !.buffer = @ \o entry]
    <3>1. logged' = Append(logged, packet.seq)
      BY <1>1, <1>3, <2>1 DEF Logged
    <3>2. base \in Logger /\ Logs(base, logged, shorts')
      <4>1. CASE LogFlushes(logger)
        BY <1>3, <1>5, <2>1, <4>1, FlushTakes, FlushKeeps
      <4>2. CASE ~LogFlushes(logger)
        BY <1>3, <1>5, <4>2
      <4> QED
        BY <4>1, <4>2
    <3>3. logger' = next
      BY <1>1, <2>1 DEF log
    <3> HIDE DEF base
    <3>4. next \in Logger /\ Logs(next, Append(logged, packet.seq), shorts')
      BY <1>3, <1>5, <3>2, EntryKeeps
    <3>5. Append(logged, packet.seq) \in Seq(Nat)
      BY <1>3
    <3> HIDE DEF next
    <3> QED
      BY <3>1, <3>3, <3>4, <3>5
  <2>2. CASE ~packet.sampled
    <3>1. logged' = logged
      BY <1>1, <1>3, <2>2, ConcatEmptySeq DEF Logged
    <3>2. logger' = logger /\ shorts' = shorts
      BY <1>1, <1>5, <2>2
    <3> QED
      BY <1>3, <3>1, <3>2
  <2> QED
    BY <2>1, <2>2
<1>7. processed' \in Seq(Packet) /\ Len(processed') = Len(processed) + 1
  BY <1>1, <1>3
<1> HIDE DEF flushes
<1>8. TypeInv'
  BY <1>1, <1>5, <1>6, <1>7 DEF Inv, TypeInv
<1>9. PacketInv'
  BY <1>1, <1>2, <1>7 DEF Inv, PacketInv
<1>10. LoggerInv' /\ KillInv'
  BY <1>1, <1>2, <1>6 DEF LoggerInv, KillInv
<1> QED
  BY <1>8, <1>9, <1>10 DEF Inv

LEMMA ReportKeeps ==
  ASSUME Inv, NEW ok \in BOOLEAN, NEW written \in 0 .. HeaderWords + BufferWords, Report(ok, written)
  PROVE  Inv'
<1>1. /\ pc = "report" /\ pc' = "exit" /\ written \in Nat
      /\ Writes(TRUE, written)
      /\ logger' = flush(logger, written)
      /\ exit_code' \in {0, 1}
      /\ UNCHANGED <<variant, remaining, packet, stats, processed, logged, interrupted,
                     stop_requested>>
  <2>1. written \in Nat
    BY BinaryLogAssumption
  <2>2. exit_code' = IF ok THEN 0 ELSE 1
    BY DEF Report
  <2>3. exit_code' \in {0, 1}
    BY <2>2
  <2> QED
    BY <2>1, <2>3, Zenon DEF Report
<1>2. exit_code = NotExited /\ exit_code # Killed
      /\ exit_code' # Killed /\ exit_code' # NotExited
  BY <1>1 DEF Inv, PacketInv, NotExited, Killed
<1>3. logged \in Seq(Nat) /\ logger \in Logger /\ shorts \in Nat /\ Logs(logger, logged, shorts)
  BY <1>2 DEF Inv, TypeInv, LoggerInv
<1>4. /\ written \in 0 .. Len(Pending(logger)) /\ shorts' \in Nat
      /\ shorts' = IF written < Len(Pending(logger)) THEN shorts + 1 ELSE shorts
  BY <1>1, WriteCounts DEF Inv
<1>5. logger' \in Logger /\ Pending(logger') = << >> /\ Logs(logger', logged', shorts')
  BY <1>1, <1>3, <1>4, FlushTakes, FlushKeeps
<1>6. TypeInv'
  BY <1>1, <1>4, <1>5 DEF Inv, TypeInv
<1>7. PacketInv'
  BY <1>1, <1>2 DEF Inv, PacketInv
<1>8. LoggerInv' /\ KillInv'
  BY <1>1, <1>2, <1>5 DEF LoggerInv, KillInv
<1> QED
  BY <1>6, <1>7, <1>8 DEF Inv

LEMMA KillKeeps ==
  ASSUME Inv, NEW file, KilledWith(file)
  PROVE  Inv'
<1>1. /\ pc \notin {"setup", "exit"} /\ pc' = "exit"
      /\ file \in Remains(logger, Flushing)
      /\ logger' = [logger EXCEPT !.file = file]
      /\ exit_code' = Killed
      /\ UNCHANGED <<variant, remaining, packet, stats, processed, logged, shorts,
                     interrupted, stop_requested>>
  BY DEF KilledWith
<1>2. exit_code = NotExited /\ exit_code # Killed /\ Killed # NotExited
  BY <1>1 DEF Inv, PacketInv, NotExited, Killed
<1>3. logged \in Seq(Nat) /\ logger \in Logger /\ shorts \in Nat /\ Logs(logger, logged, shorts)
  BY <1>2 DEF Inv, TypeInv, LoggerInv
<1>4. Flushing \in BOOLEAN
  BY <1>3 DEF Flushing, LogFlushes, Inv, TypeInv, Packet
<1>5. file \in Seq(Word)
  BY <1>1, <1>3, <1>4, RemainsType
<1>6. logger' \in Logger /\ logger'.file = file
  BY <1>1, <1>3, <1>5 DEF Logger
<1>7. TypeInv'
  BY <1>1, <1>6 DEF Inv, TypeInv
<1>8. PacketInv'
  BY <1>1, <1>2 DEF Inv, PacketInv
<1>9. LoggerInv'
  BY <1>1 DEF LoggerInv
<1>10. KillInv'
  <2>1. ASSUME shorts = 0
        PROVE  \/ Damaged(file, logged)
               \/ \E n \in 0 .. HeaderWords - 1 : file = SubSeq(encode_log_header, 1, n)
    <3>1. Logs(logger, logged, 0)
      BY <1>3, <2>1
    <3> QED
      BY <1>1, <1>3, <1>4, <3>1, KillLeaves
  <2> QED
    BY <1>1, <1>6, <2>1 DEF KillInv
<1> QED
  BY <1>7, <1>8, <1>9, <1>10 DEF Inv

LEMMA NextKeeps == Inv /\ [Next]_vars => Inv'
<1> SUFFICES ASSUME Inv, [Next]_vars PROVE Inv'
  OBVIOUS
<1>1. CASE Environment
  <2>1. CASE Sigint
    BY <2>1, MovesKeep
  <2>2. ASSUME NEW n \in 1 .. MaxDatagrams, Receive(n) PROVE Inv'
    BY <2>2, ReceiveKeeps
  <2>3. CASE Error
    BY <2>3, ErrorKeeps
  <2>4. ASSUME NEW file, KilledWith(file) PROVE Inv'
    BY <2>4, KillKeeps
  <2> QED
    BY <1>1, <2>1, <2>2, <2>3, <2>4 DEF Environment
<1>2. CASE Receiver
  <2>1. ASSUME \/ Start \/ Loop \/ Timeout \/ BatchEnd \/ ReadInterrupted
               \/ \E code \in {1, 2} : SetupFails(code)
        PROVE  Inv'
    BY <2>1, MovesKeep
  <2>2. ASSUME NEW d \in Datagram, HandleDatagram(d) PROVE Inv'
    BY <2>2, DatagramKeeps
  <2>3. ASSUME NEW written \in 0 .. HeaderWords + BufferWords, Process(written) PROVE Inv'
    BY <2>3, ProcessKeeps
  <2>4. ASSUME NEW ok \in BOOLEAN, NEW written \in 0 .. HeaderWords + BufferWords, Report(ok, written)
        PROVE  Inv'
    BY <2>4, ReportKeeps
  <2> QED
    BY <1>2, <2>1, <2>2, <2>3, <2>4 DEF Receiver
<1>3. CASE UNCHANGED vars
  BY <1>3 DEF vars, logVars, Inv, TypeInv, PacketInv, LoggerInv, KillInv
<1> QED
  BY <1>1, <1>2, <1>3 DEF Next, Exited

(* The invariant of the receivers of receiver_baseline.cpp and             *)
(* receiver_batched.cpp: a packet is processed before the next datagram is *)
(* looked at, and file and buffers together are the log, in which a short  *)
(* write leaves a part of the header, or a gap that ends where an entry    *)
(* begins.                                                                 *)
THEOREM Invariance == Spec => []Inv
BY InitInv, NextKeeps, PTL DEF Spec

(* All variables of the receivers keep their types.                        *)
THEOREM TypeCorrect == Spec => []TypeInv
<1>1. Inv => TypeInv
  BY DEF Inv
<1> QED
  BY <1>1, Invariance, PTL

-----------------------------------------------------------------------------
(* The log.                                                                *)

(* LogIsComplete: when every write of csv_writer.hpp was complete and the  *)
(* receiver exits on its own, load_binary_file() of latency_utils.py       *)
(* returns the sampled packets, in order, wherever the flushes fell.       *)
THEOREM LogIsCompleteHolds == Spec => []LogIsComplete
<1>1. ASSUME Inv PROVE LogIsComplete
  <2> SUFFICES ASSUME pc = "exit", exit_code = 0, shorts = 0
               PROVE  /\ Loads(logger.file)
                      /\ load_binary_file(logger.file) =
                           [i \in 1 .. Len(logged) |-> encode_log_entry(logged[i])]
    BY DEF LogIsComplete
  <2>1. /\ Intact(Content(logger), logged) /\ Pending(logger) = << >>
        /\ logger \in Logger /\ logged \in Seq(Nat)
    BY <1>1 DEF Inv, TypeInv, LoggerInv, Logs, Killed
  <2>2. logger.file \in Seq(Word) /\ Content(logger) = logger.file
    BY <2>1, ContentType, ConcatEmptySeq DEF Content
  <2>3. Intact(logger.file, logged)
    BY <2>1, <2>2
  <2> QED
    BY <2>1, <2>2, <2>3, IntactLoads
<1> QED
  BY <1>1, Invariance, PTL

(* LogIsNeverGarbled: after one short write that left the magic number, or *)
(* a kill, the loader reports an error or returns records that were        *)
(* logged, in order.                                                       *)
THEOREM LogIsNeverGarbledHolds == Spec => []LogIsNeverGarbled
<1>1. ASSUME Inv PROVE LogIsNeverGarbled
  <2> DEFINE file == logger.file
             loaded == load_binary_file(file)
  <2> SUFFICES ASSUME pc = "exit", Loads(file),
                      shorts + (IF exit_code = Killed THEN 1 ELSE 0) <= 1,
                      shorts = 1 => StartsWithMagic(file)
               PROVE  \E picked \in [1 .. Len(loaded) -> 1 .. Len(logged)] :
                        /\ \A i, j \in DOMAIN picked : i < j => picked[i] < picked[j]
                        /\ \A i \in DOMAIN picked : loaded[i] = encode_log_entry(logged[picked[i]])
    BY DEF LogIsNeverGarbled
  <2>1. /\ logger \in Logger /\ logged \in Seq(Nat) /\ shorts \in Nat
        /\ file \in Seq(Word)
    BY <1>1, ContentType DEF Inv, TypeInv
  <2>2. ASSUME Damaged(file, logged)
        PROVE  \E picked \in [1 .. Len(loaded) -> 1 .. Len(logged)] :
                 /\ \A i, j \in DOMAIN picked : i < j => picked[i] < picked[j]
                 /\ \A i \in DOMAIN picked : loaded[i] = encode_log_entry(logged[picked[i]])
    <3> HIDE DEF file
    <3> QED
      BY <2>1, <2>2, DamagedLoads
  <2>3. ASSUME NEW n \in 0 .. HeaderWords - 1, file = SubSeq(encode_log_header, 1, n)
        PROVE  \E picked \in [1 .. Len(loaded) -> 1 .. Len(logged)] :
                 /\ \A i, j \in DOMAIN picked : i < j => picked[i] < picked[j]
                 /\ \A i \in DOMAIN picked : loaded[i] = encode_log_entry(logged[picked[i]])
    <3>1. Len(loaded) = 0
      BY <2>3, HeaderLoads
    <3> DEFINE none == [i \in 1 .. 0 |-> 1]
    <3> HIDE DEF file, loaded
    <3>2. none \in [1 .. Len(loaded) -> 1 .. Len(logged)] /\ DOMAIN none = 1 .. 0
      BY <3>1
    <3>3. \A i \in 1 .. 0 : FALSE
      OBVIOUS
    <3> HIDE DEF none
    <3> QED
      BY <3>2, <3>3
  <2>4. CASE exit_code = Killed
    <3>1. shorts = 0
      BY <2>1, <2>4
    <3> QED
      BY <1>1, <2>2, <2>3, <2>4, <3>1 DEF Inv, KillInv
  <2>5. CASE exit_code # Killed /\ Pending(logger) = << >>
    <3>1. Logs(logger, logged, shorts)
      BY <1>1, <2>5 DEF Inv, LoggerInv
    <3>2. Content(logger) = file
      BY <2>1, <2>5, ConcatEmptySeq DEF Content
    <3>3. shorts \in {0, 1}
      BY <2>1, <2>5
    <3>4. ~(shorts = 1 /\ Headless(file))
      <4> HIDE DEF file
      <4> QED
        BY <2>1, HeadlessFails
    <3>5. Damaged(file, logged)
      BY <2>1, <3>1, <3>2, <3>3, <3>4, IntactIsDamaged DEF Logs
    <3> QED
      BY <2>2, <3>5
  <2>6. CASE exit_code # Killed /\ file = << >>
    <3>1. 0 \in 0 .. HeaderWords - 1
      BY BinaryLogAssumption
    <3>2. SubSeq(encode_log_header, 1, 0) = << >>
      BY SubSeqEmpty
    <3> QED
      BY <2>3, <2>6, <3>1, <3>2
  <2> QED
    BY <1>1, <2>4, <2>5, <2>6 DEF Inv, LoggerInv
<1> QED
  BY <1>1, Invariance, PTL

-----------------------------------------------------------------------------
(* The contract.                                                           *)

(* Where the receiver stands when it is running.                           *)
LEMMA Standing ==
  ASSUME Inv, pc # "exit"
  PROVE  /\ ~Reported /\ processed \in Seq(Packet) /\ stats["valid"] \in Nat
         /\ pc = "process" => Len(processed) + 1 = stats["valid"]
         /\ pc # "process" => Len(processed) = stats["valid"]
<1>1. exit_code # Killed
  BY DEF Inv, PacketInv, NotExited, Killed
<1> QED
  BY <1>1, CountersAreNumbers DEF Inv, TypeInv, PacketInv, Reported

(* What the contract calls waiting.                                        *)
Waiting == IF Len(processed) < stats["valid"] THEN <<packet>> ELSE << >>

(* A datagram that is a packet is received by the contract.                *)
LEMMA DatagramRefines ==
  ASSUME Inv, Inv', NEW d \in Datagram, HandleDatagram(d)
  PROVE  Contract!Next \/ UNCHANGED Contract!vars
<1>1. /\ pc = "batch" /\ UNCHANGED <<processed, exit_code>>
  BY DEF HandleDatagram
<1>2. /\ ~Reported /\ processed \in Seq(Packet) /\ stats["valid"] \in Nat
      /\ Len(processed) = stats["valid"]
  BY <1>1, Standing
<1>3. Len(processed) \in Nat /\ Waiting = << >>
  BY <1>2 DEF Waiting
<1>4. pc' # "exit" /\ Reported' = Reported
  BY <1>1, DatagramCounts DEF Reported, Inv
<1>5. CASE Processable(d)
  <2>1. stats'["valid"] = stats["valid"] + 1
    BY <1>5, DatagramCounts DEF Inv
  <2>2. Waiting' = <<packet'>>
    BY <1>1, <1>2, <2>1 DEF Waiting
  <2>3. packet' \in Packet
    BY DEF Inv, TypeInv
  <2>4. Append(<< >>, packet') = <<packet'>>
    OBVIOUS
  <2>5. Waiting' = Append(Waiting, packet')
    BY <1>3, <2>2, <2>4
  <2>6. Contract!Receive(packet')
    BY <1>1, <1>2, <1>4, <2>1, <2>5, Zenon DEF Contract!Receive, Waiting
  <2> QED
    BY <2>3, <2>6 DEF Contract!Next
<1>6. CASE ~Processable(d)
  <2>1. stats'["valid"] = stats["valid"] /\ packet' = packet
    BY <1>6, DatagramCounts DEF Inv
  <2>2. Waiting' = Waiting
    BY <1>1, <2>1 DEF Waiting
  <2> QED
    BY <1>1, <1>4, <2>1, <2>2 DEF Contract!vars, Waiting
<1> QED
  BY <1>5, <1>6

(* The packet in hand is the oldest one that waits.                        *)
LEMMA ProcessRefines ==
  ASSUME Inv, Inv', NEW written \in 0 .. HeaderWords + BufferWords, Process(written)
  PROVE  Contract!Next
<1>1. /\ pc = "process" /\ pc' = "batch"
      /\ processed' = Append(processed, packet)
      /\ UNCHANGED <<packet, stats, exit_code>>
  BY DEF Process
<1>2. /\ ~Reported /\ processed \in Seq(Packet) /\ stats["valid"] \in Nat
      /\ Len(processed) + 1 = stats["valid"]
  BY <1>1, Standing
<1>3. Reported' = Reported
  BY <1>1 DEF Reported
<1>4. Len(processed) \in Nat /\ Waiting = <<packet>>
  BY <1>2 DEF Waiting
<1>5. Len(processed') = stats["valid"]
  BY <1>1, <1>2
<1>6. Waiting' = << >>
  BY <1>1, <1>2, <1>5 DEF Waiting
<1>7. Head(<<packet>>) = packet /\ Tail(<<packet>>) = << >> /\ <<packet>> # << >>
  OBVIOUS
<1>8. Contract!Process
  <2>1. processed' = Append(processed, Head(Waiting)) /\ Waiting' = Tail(Waiting)
    BY <1>1, <1>4, <1>6, <1>7
  <2>2. Waiting # << >>
    BY <1>4, <1>7
  <2> QED
    BY <1>1, <1>2, <1>3, <2>1, <2>2, Zenon DEF Contract!Process, Waiting
<1> QED
  BY <1>8 DEF Contract!Next

LEMMA ReportRefines ==
  ASSUME Inv, NEW ok \in BOOLEAN, NEW written \in 0 .. HeaderWords + BufferWords, Report(ok, written)
  PROVE  Contract!Next \/ UNCHANGED Contract!vars
<1>1. /\ pc = "report" /\ pc' = "exit"
      /\ exit_code' = IF ok THEN 0 ELSE 1
      /\ UNCHANGED <<packet, stats, processed>>
  BY DEF Report
<1>2. /\ ~Reported /\ processed \in Seq(Packet) /\ stats["valid"] \in Nat
      /\ Len(processed) = stats["valid"]
  BY <1>1, Standing
<1>3. Waiting = << >> /\ Waiting' = Waiting
  BY <1>1, <1>2 DEF Waiting
<1>4. CASE ok
  <2>1. Reported'
    BY <1>1, <1>4 DEF Reported
  <2>2. Contract!Report
    BY <1>1, <1>2, <1>3, <2>1 DEF Contract!Report, Waiting
  <2> QED
    BY <2>2 DEF Contract!Next
<1>5. CASE ~ok
  <2>1. Reported' = Reported
    BY <1>1, <1>5 DEF Reported
  <2> QED
    BY <1>1, <1>3, <2>1 DEF Contract!vars, Waiting
<1> QED
  BY <1>4, <1>5

(* All other steps are none of the contract.                               *)
LEMMA OthersStutter ==
  ASSUME Inv, pc # "exit", UNCHANGED <<packet, processed>>,
         stats'["valid"] = stats["valid"], pc' = "exit" => exit_code' # 0
  PROVE  UNCHANGED Contract!vars
<1>1. Reported' = Reported
  BY DEF Reported
<1>2. Waiting' = Waiting
  BY DEF Waiting
<1> QED
  BY <1>1, <1>2 DEF Contract!vars, Waiting

(* ImplementsContract: the receivers that process a packet on the spot     *)
(* keep the contract of the threaded one (receiver_common.hpp): packets    *)
(* are processed in the order they were received, all of them before the   *)
(* report, and none is dropped.                                            *)
THEOREM ContractHolds == Spec => ImplementsContract
<1>1. Init => Contract!Init
  <2> SUFFICES ASSUME Init PROVE Contract!Init
    OBVIOUS
  <2>1. processed = << >> /\ stats["valid"] = 0 /\ ~Reported
    BY DEF Init, Counter, Reported
  <2>2. Len(processed) = 0
    BY <2>1
  <2> QED
    BY <2>1, <2>2 DEF Contract!Init
<1>2. Inv /\ Inv' /\ [Next]_vars => [Contract!Next]_(Contract!vars)
  <2> SUFFICES ASSUME Inv, Inv', [Next]_vars
               PROVE  Contract!Next \/ UNCHANGED Contract!vars
    OBVIOUS
  <2>1. ASSUME NEW d \in Datagram, HandleDatagram(d)
        PROVE  Contract!Next \/ UNCHANGED Contract!vars
    BY <2>1, DatagramRefines
  <2>2. ASSUME NEW written \in 0 .. HeaderWords + BufferWords, Process(written)
        PROVE  Contract!Next
    BY <2>2, ProcessRefines
  <2>3. ASSUME NEW ok \in BOOLEAN, NEW written \in 0 .. HeaderWords + BufferWords, Report(ok, written)
        PROVE  Contract!Next \/ UNCHANGED Contract!vars
    BY <2>3, ReportRefines
  <2>4. ASSUME \/ Sigint \/ Start \/ Loop \/ Timeout \/ BatchEnd \/ ReadInterrupted
               \/ \E code \in {1, 2} : SetupFails(code)
               \/ \E n \in 1 .. MaxDatagrams : Receive(n)
        PROVE  UNCHANGED Contract!vars
    <3>1. /\ pc # "exit" /\ UNCHANGED <<packet, processed, stats>>
          /\ pc' = "exit" => exit_code' # 0
      BY <2>4 DEF Sigint, Start, Loop, Timeout, BatchEnd, ReadInterrupted, SetupFails, Receive
    <3> QED
      BY <3>1, OthersStutter
  <2>5. ASSUME Error PROVE UNCHANGED Contract!vars
    <3>1. /\ pc = "recv" /\ pc' = "left" /\ UNCHANGED <<packet, processed>>
          /\ stats' = [stats EXCEPT !["socket_errors"] = @ + 1]
      BY <2>5 DEF Error
    <3>2. stats'["valid"] = stats["valid"]
      BY <3>1 DEF Inv, TypeInv, Counter
    <3> QED
      BY <3>1, <3>2, OthersStutter
  <2>6. ASSUME NEW file, KilledWith(file) PROVE UNCHANGED Contract!vars
    <3>1. /\ pc # "exit" /\ UNCHANGED <<packet, processed, stats>> /\ exit_code' # 0
      BY <2>6 DEF KilledWith, Killed
    <3> QED
      BY <3>1, OthersStutter
  <2>7. ASSUME UNCHANGED vars PROVE UNCHANGED Contract!vars
    BY <2>7 DEF vars, Contract!vars, Reported
  <2> QED
    BY <2>1, <2>2, <2>3, <2>4, <2>5, <2>6, <2>7 DEF Next, Environment, Receiver, Exited
<1> QED
  BY <1>1, <1>2, Invariance, PTL DEF Spec, ImplementsContract, Contract!Spec

=============================================================================
