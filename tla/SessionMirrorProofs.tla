------------------------- MODULE SessionMirrorProofs -------------------------
(***************************************************************************)
(* The store of the UI thread mirrors the session, for any documents, any  *)
(* number of loads, events and responses on their way, and whatever a      *)
(* session computes that reports what it changes.                          *)
(***************************************************************************)
EXTENDS SessionMirror, SequenceTheorems, TLAPS

-----------------------------------------------------------------------------
(* Channels, whatever they carry. *)

IsChannel(s) == Len(s) \in Nat /\ s = [i \in 1..Len(s) |-> s[i]]

LEMMA ChannelIsSeq == ASSUME NEW s, IsChannel(s) PROVE s \in Seq({s[i] : i \in 1..Len(s)})
<1> DEFINE S == {s[i] : i \in 1..Len(s)}
<1>1. Len(s) \in Nat /\ \A i \in 1..Len(s) : s[i] \in S BY DEF IsChannel
<1>2. s = [i \in 1..Len(s) |-> s[i]] BY DEF IsChannel
<1> HIDE DEF S
<1>3. [i \in 1..Len(s) |-> s[i]] \in [1..Len(s) -> S] BY <1>1
<1>4. s \in [1..Len(s) -> S] BY <1>2, <1>3
<1>5. s \in Seq(S) BY <1>1, <1>4, SeqDef
<1> QED BY <1>5 DEF S

LEMMA SeqIsChannel == ASSUME NEW S, NEW s \in Seq(S) PROVE IsChannel(s)
BY DEF IsChannel

LEMMA EmptyChannel == IsChannel(<<>>) /\ Len(<<>>) = 0
BY DEF IsChannel

LEMMA ChannelTail ==
  ASSUME NEW s, IsChannel(s), s # <<>>
  PROVE  /\ IsChannel(Tail(s)) /\ Len(s) >= 1 /\ Len(Tail(s)) = Len(s) - 1 /\ Head(s) = s[1]
         /\ \A i \in 1..Len(Tail(s)) : i + 1 \in 2..Len(s) /\ Tail(s)[i] = s[i + 1]
<1> DEFINE S == {s[i] : i \in 1..Len(s)}
<1>1. s \in Seq(S) BY ChannelIsSeq
<1> HIDE DEF S
<1>2. Tail(s) \in Seq(S) /\ Len(Tail(s)) = Len(s) - 1 /\ Head(s) = s[1] /\ Len(s) \in Nat /\ Len(s) >= 1
  BY <1>1
<1>3. \A i \in 1..Len(Tail(s)) : i + 1 \in 2..Len(s) /\ Tail(s)[i] = s[i + 1] BY <1>1, <1>2
<1> QED BY <1>2, <1>3, SeqIsChannel

LEMMA ChannelLonger ==
  ASSUME NEW s, IsChannel(s), NEW t, Longer(t, s)
  PROVE  IsChannel(t) /\ Len(s) <= Len(t) /\ \A i \in 1..Len(s) : i \in 1..Len(t) /\ t[i] = s[i]
<1>1. Len(t) \in Nat /\ Len(s) \in Nat /\ Len(s) <= Len(t) BY DEF Longer, IsChannel
<1>2. t = [i \in 1..Len(t) |-> IF i <= Len(s) THEN s[i] ELSE t[i]] BY DEF Longer
<1>3. \A i \in 1..Len(t) : t[i] = IF i <= Len(s) THEN s[i] ELSE t[i] BY <1>2
<1>4. t = [i \in 1..Len(t) |-> t[i]] BY <1>2
<1> QED BY <1>1, <1>3, <1>4 DEF IsChannel

LEMMA ChannelAppend ==
  ASSUME NEW s, IsChannel(s), NEW x
  PROVE  /\ IsChannel(Append(s, x)) /\ Len(Append(s, x)) = Len(s) + 1 /\ Append(s, x)[Len(s) + 1] = x
         /\ \A i \in 1..Len(s) : Append(s, x)[i] = s[i]
<1> DEFINE S == {s[i] : i \in 1..Len(s)} \cup {x}
<1>1. s \in Seq({s[i] : i \in 1..Len(s)}) BY ChannelIsSeq
<1>2. s \in Seq(S) BY <1>1
<1> HIDE DEF S
<1>3. x \in S BY DEF S
<1>4. Append(s, x) \in Seq(S) /\ Len(Append(s, x)) = Len(s) + 1 BY <1>2, <1>3
<1>5. Append(s, x)[Len(s) + 1] = x /\ \A i \in 1..Len(s) : Append(s, x)[i] = s[i] BY <1>2, <1>3
<1> QED BY <1>4, <1>5, SeqIsChannel

-----------------------------------------------------------------------------
(* The invariant. *)

\* Reloads on their way carry rising numbers, above the session's, and the last
\* one carries the document that is shown.
ReloadsAhead(tx, low, high, doc) ==
  \A i \in 1..Len(tx) : tx[i].e = "Reload" =>
    /\ tx[i].load \in Nat /\ low < tx[i].load /\ tx[i].load <= high
    /\ tx[i].load = high => tx[i].doc = doc
    /\ \A j \in 1..Len(tx) : i < j /\ tx[j].e = "Reload" => tx[i].load < tx[j].load

\* Responses arrive in the order of their loads, and none is ahead of the
\* session's; each gives a variable one value.
ResponsesBehind(rx, top) ==
  \A i \in 1..Len(rx) :
    /\ rx[i].load \in Nat /\ rx[i].load <= top
    /\ \A j \in 1..Len(rx) : i < j => rx[i].load <= rx[j].load
    /\ \A a, b \in rx[i].vars : a.sym = b.sym => a.v = b.v

Reports(r, i) == \E m \in r.vars : m.sym = i

\* The last response of load n that reports variable i.
IsLast(rx, n, i, k) ==
  /\ rx[k].load = n /\ Reports(rx[k], i)
  /\ \A j \in 1..Len(rx) : k < j => ~(rx[j].load = n /\ Reports(rx[j], i))

Unreported(rx, n, i) == \A k \in 1..Len(rx) : ~(rx[k].load = n /\ Reports(rx[k], i))

\* A response of another load is about to write variable i.
Stray(rx, n, i) == \E k \in 1..Len(rx) : rx[k].load # n /\ Reports(rx[k], i)

\* Variable i, named s, has the value g in the session and the value v in the
\* store: the last report of it on its way brings g, and when there is none the
\* store shows g already, unless another document's response wrote over a
\* variable that this one never reported.
Follows(rx, n, i, s, g, v, strays) ==
  /\ \A k \in 1..Len(rx) : IsLast(rx, n, i, k) => \A m \in rx[k].vars : m.sym = i => Shown(m.v) = Shown(g)
  /\ Unreported(rx, n, i) =>
       \/ Shown(v) = Shown(g) /\ ~Stray(rx, n, i)
       \/ (i \in strays \/ Stray(rx, n, i)) /\ (g = Unset \/ s = "window_url")

Counted ==
  /\ loads \in Nat /\ session.load \in Nat /\ session.load <= loads
  /\ session.load = loads => session.doc = tab.doc
  /\ DOMAIN tab.store = DOMAIN tab.doc.names

Channels ==
  /\ IsChannel(logic_tx) /\ ReloadsAhead(logic_tx, session.load, loads, tab.doc)
  /\ IsChannel(logic_rx) /\ ResponsesBehind(logic_rx, session.load)

\* While the session has not seen the last load, the store holds what the load
\* gave it, but for responses of other documents.
Waiting ==
  session.load # loads =>
    \A i \in DOMAIN tab.store : tab.store[i] = InitialStore(tab.doc)[i] \/ i \in foreign

Following ==
  session.load = loads =>
    \A i \in DOMAIN tab.doc.names :
      Follows(logic_rx, loads, i, tab.doc.names[i], session.ev.globals[tab.doc.names[i]], tab.store[i], foreign)

MirrorIInv == Counted /\ Channels /\ Waiting /\ Following

-----------------------------------------------------------------------------
(* What a step does to the channels. *)

LEMMA ReloadsLonger ==
  ASSUME NEW tx, IsChannel(tx), NEW t, Longer(t, tx), NEW low, NEW high, NEW doc,
         ReloadsAhead(tx, low, high, doc), \A i \in (Len(tx) + 1)..Len(t) : t[i].e # "Reload"
  PROVE  IsChannel(t) /\ ReloadsAhead(t, low, high, doc)
<1>1. IsChannel(t) /\ Len(tx) <= Len(t) /\ \A i \in 1..Len(tx) : i \in 1..Len(t) /\ t[i] = tx[i]
  BY ChannelLonger
<1>2. Len(t) \in Nat /\ Len(tx) \in Nat BY <1>1 DEF IsChannel
<1>3. \A i \in 1..Len(t) : t[i].e = "Reload" => i \in 1..Len(tx) BY <1>2
<1>4. ReloadsAhead(t, low, high, doc) BY <1>1, <1>3 DEF ReloadsAhead
<1> QED BY <1>1, <1>4

LEMMA ReloadsTail ==
  ASSUME NEW tx, IsChannel(tx), tx # <<>>, NEW low, NEW high, NEW doc, ReloadsAhead(tx, low, high, doc)
  PROVE  /\ IsChannel(Tail(tx)) /\ ReloadsAhead(Tail(tx), low, high, doc)
         /\ Head(tx).e = "Reload" =>
              /\ ReloadsAhead(Tail(tx), Head(tx).load, high, doc)
              /\ Head(tx).load \in Nat /\ low < Head(tx).load /\ Head(tx).load <= high
              /\ Head(tx).load = high => Head(tx).doc = doc
<1>1. /\ IsChannel(Tail(tx)) /\ Len(tx) >= 1 /\ Len(Tail(tx)) = Len(tx) - 1 /\ Head(tx) = tx[1]
      /\ \A i \in 1..Len(Tail(tx)) : i + 1 \in 2..Len(tx) /\ Tail(tx)[i] = tx[i + 1]
  BY ChannelTail
<1>2. Len(tx) \in Nat BY DEF IsChannel
<1>3. \A i, j \in 1..Len(Tail(tx)) : i < j => i + 1 < j + 1 BY <1>1, <1>2
<1>4. ReloadsAhead(Tail(tx), low, high, doc) BY <1>1, <1>2, <1>3 DEF ReloadsAhead
<1>5. ASSUME Head(tx).e = "Reload"
      PROVE  /\ ReloadsAhead(Tail(tx), Head(tx).load, high, doc)
             /\ Head(tx).load \in Nat /\ low < Head(tx).load /\ Head(tx).load <= high
             /\ Head(tx).load = high => Head(tx).doc = doc
  <2>1. 1 \in 1..Len(tx) /\ tx[1].e = "Reload" BY <1>1, <1>2, <1>5
  <2>2. \A i \in 1..Len(Tail(tx)) : Tail(tx)[i].e = "Reload" => tx[1].load < Tail(tx)[i].load
    BY <1>1, <1>2, <2>1 DEF ReloadsAhead
  <2>3. ReloadsAhead(Tail(tx), tx[1].load, high, doc) BY <1>4, <2>2 DEF ReloadsAhead
  <2> QED BY <1>1, <2>1, <2>3 DEF ReloadsAhead
<1> QED BY <1>1, <1>4, <1>5

LEMMA ResponsesTail ==
  ASSUME NEW rx, IsChannel(rx), rx # <<>>, NEW top \in Nat, ResponsesBehind(rx, top)
  PROVE  IsChannel(Tail(rx)) /\ ResponsesBehind(Tail(rx), top)
<1>1. /\ IsChannel(Tail(rx)) /\ Len(rx) >= 1 /\ Len(Tail(rx)) = Len(rx) - 1
      /\ \A i \in 1..Len(Tail(rx)) : i + 1 \in 2..Len(rx) /\ Tail(rx)[i] = rx[i + 1]
  BY ChannelTail
<1>2. Len(rx) \in Nat BY DEF IsChannel
<1>3. \A i, j \in 1..Len(Tail(rx)) : i < j => i + 1 < j + 1 BY <1>1, <1>2
<1>4. ResponsesBehind(Tail(rx), top) BY <1>1, <1>2, <1>3 DEF ResponsesBehind
<1> QED BY <1>1, <1>4

\* One response more, of a load that is not behind the session's.
LEMMA ResponsesLonger ==
  ASSUME NEW rx, IsChannel(rx), NEW t, Longer(t, rx), Len(t) = Len(rx) + 1,
         NEW old \in Nat, NEW new \in Nat, old <= new, ResponsesBehind(rx, old), t[Len(rx) + 1].load = new,
         \A a, b \in t[Len(rx) + 1].vars : a.sym = b.sym => a.v = b.v
  PROVE  IsChannel(t) /\ ResponsesBehind(t, new)
<1>1. IsChannel(t) /\ \A i \in 1..Len(rx) : i \in 1..Len(t) /\ t[i] = rx[i] BY ChannelLonger
<1>2. Len(rx) \in Nat BY DEF IsChannel
<1>3. \A i \in 1..Len(t) : i \in 1..Len(rx) \/ i = Len(rx) + 1 BY <1>2
<1>4. \A i \in 1..Len(t) : t[i].load \in Nat /\ t[i].load <= new BY <1>1, <1>3 DEF ResponsesBehind
<1>5. \A i \in 1..Len(t) : \A j \in 1..Len(t) : i < j => t[i].load <= t[j].load
  <2> SUFFICES ASSUME NEW i \in 1..Len(t), NEW j \in 1..Len(t), i < j PROVE t[i].load <= t[j].load OBVIOUS
  <2>1. i \in 1..Len(rx) BY <1>2, <1>3
  <2>2. CASE j = Len(rx) + 1 BY <1>4, <2>2
  <2>3. CASE j \in 1..Len(rx) BY <1>1, <2>1, <2>3 DEF ResponsesBehind
  <2> QED BY <1>3, <2>2, <2>3
<1>6. \A i \in 1..Len(t) : \A a, b \in t[i].vars : a.sym = b.sym => a.v = b.v
  BY <1>1, <1>3 DEF ResponsesBehind
<1> QED BY <1>1, <1>4, <1>5, <1>6 DEF ResponsesBehind

-----------------------------------------------------------------------------
(* What a step does to the mirror of one variable. *)

\* A response that reports the variable settles it.
LEMMA FollowsReport ==
  ASSUME NEW rx, IsChannel(rx), NEW t, Longer(t, rx), Len(t) = Len(rx) + 1,
         NEW n, NEW i, NEW s, NEW g, NEW v, NEW strays, t[Len(rx) + 1].load = n,
         Reports(t[Len(rx) + 1], i), \A m \in t[Len(rx) + 1].vars : m.sym = i => m.v = g
  PROVE  Follows(t, n, i, s, g, v, strays)
<1>1. Len(rx) \in Nat /\ Len(rx) + 1 \in 1..Len(t) BY DEF IsChannel
<1>2. ~Unreported(t, n, i) BY <1>1 DEF Unreported
<1>3. \A k \in 1..Len(t) : IsLast(t, n, i, k) => k = Len(rx) + 1 BY <1>1 DEF IsLast
<1>4. \A k \in 1..Len(t) : IsLast(t, n, i, k) => \A m \in t[k].vars : m.sym = i => Shown(m.v) = Shown(g)
  BY <1>3
<1> QED BY <1>2, <1>4 DEF Follows

\* A response of the same load that does not report it.
LEMMA FollowsUnreported ==
  ASSUME NEW rx, IsChannel(rx), NEW t, Longer(t, rx), Len(t) = Len(rx) + 1,
         NEW n, NEW i, NEW s, NEW g, NEW h, NEW v, NEW strays, t[Len(rx) + 1].load = n,
         ~Reports(t[Len(rx) + 1], i), Shown(h) = Shown(g), g = Unset => h = Unset,
         Follows(rx, n, i, s, g, v, strays)
  PROVE  Follows(t, n, i, s, h, v, strays)
<1>1. \A k \in 1..Len(rx) : k \in 1..Len(t) /\ t[k] = rx[k] BY ChannelLonger
<1>2. Len(rx) \in Nat BY DEF IsChannel
<1>3. \A k \in 1..Len(t) : k \in 1..Len(rx) \/ k = Len(rx) + 1 BY <1>2
<1>4. \A k \in 1..Len(t) : IsLast(t, n, i, k) => k \in 1..Len(rx) /\ IsLast(rx, n, i, k)
  BY <1>1, <1>3 DEF IsLast
<1>5. \A k \in 1..Len(t) : IsLast(t, n, i, k) => \A m \in t[k].vars : m.sym = i => Shown(m.v) = Shown(h)
  BY <1>1, <1>4 DEF Follows
<1>6. Unreported(t, n, i) => Unreported(rx, n, i) BY <1>1 DEF Unreported
<1>7. Stray(t, n, i) <=> Stray(rx, n, i) BY <1>1, <1>3 DEF Stray
<1>8. Unreported(t, n, i) =>
        \/ Shown(v) = Shown(h) /\ ~Stray(t, n, i)
        \/ (i \in strays \/ Stray(t, n, i)) /\ (h = Unset \/ s = "window_url")
  BY <1>6, <1>7 DEF Follows
<1> QED BY <1>5, <1>8 DEF Follows

\* The first response of a load that does not report it.
LEMMA FollowsFirst ==
  ASSUME NEW rx, IsChannel(rx), NEW t, Longer(t, rx), Len(t) = Len(rx) + 1,
         NEW n, NEW i, NEW s, NEW h, NEW v, NEW strays, t[Len(rx) + 1].load = n,
         ~Reports(t[Len(rx) + 1], i), \A k \in 1..Len(rx) : rx[k].load # n,
         i \in strays \/ Shown(v) = Shown(h), h = Unset \/ s = "window_url"
  PROVE  Follows(t, n, i, s, h, v, strays)
<1>1. \A k \in 1..Len(rx) : k \in 1..Len(t) /\ t[k] = rx[k] BY ChannelLonger
<1>2. Len(rx) \in Nat BY DEF IsChannel
<1>3. \A k \in 1..Len(t) : k \in 1..Len(rx) \/ k = Len(rx) + 1 BY <1>2
<1>4. \A k \in 1..Len(t) : ~IsLast(t, n, i, k) BY <1>1, <1>3 DEF IsLast
<1> QED BY <1>4 DEF Follows

\* A response that arrives, of whichever load.
LEMMA FollowsTail ==
  ASSUME NEW rx, IsChannel(rx), rx # <<>>, NEW top \in Nat, ResponsesBehind(rx, top),
         NEW i, NEW s, NEW g, NEW v, NEW strays, Follows(rx, top, i, s, g, v, strays),
         NEW w, NEW more,
         Reports(Head(rx), i) => \E m \in Head(rx).vars : m.sym = i /\ w = m.v,
         ~Reports(Head(rx), i) => w = v,
         i \in strays => i \in more, Reports(Head(rx), i) /\ Head(rx).load # top => i \in more
  PROVE  Follows(Tail(rx), top, i, s, g, w, more)
<1>1. /\ IsChannel(Tail(rx)) /\ Len(rx) >= 1 /\ Len(Tail(rx)) = Len(rx) - 1 /\ Head(rx) = rx[1]
      /\ \A k \in 1..Len(Tail(rx)) : k + 1 \in 2..Len(rx) /\ Tail(rx)[k] = rx[k + 1]
  BY ChannelTail
<1>2. Len(rx) \in Nat /\ 1 \in 1..Len(rx) BY <1>1 DEF IsChannel
<1>3. \A k \in 1..Len(rx) : k = 1 \/ (k - 1 \in 1..Len(Tail(rx)) /\ rx[k] = Tail(rx)[k - 1])
  BY <1>1, <1>2
<1>4. \A k \in 1..Len(Tail(rx)) : IsLast(Tail(rx), top, i, k) => IsLast(rx, top, i, k + 1)
  <2> SUFFICES ASSUME NEW k \in 1..Len(Tail(rx)), IsLast(Tail(rx), top, i, k),
                      NEW j \in 1..Len(rx), k + 1 < j, rx[j].load = top, Reports(rx[j], i)
               PROVE  FALSE
    BY <1>1 DEF IsLast
  <2>1. j - 1 \in 1..Len(Tail(rx)) /\ rx[j] = Tail(rx)[j - 1] /\ k < j - 1 BY <1>1, <1>2, <1>3
  <2> QED BY <2>1 DEF IsLast
<1>5. \A k \in 1..Len(Tail(rx)) : IsLast(Tail(rx), top, i, k) =>
        \A m \in Tail(rx)[k].vars : m.sym = i => Shown(m.v) = Shown(g)
  <2> SUFFICES ASSUME NEW k \in 1..Len(Tail(rx)), IsLast(Tail(rx), top, i, k)
               PROVE  \A m \in Tail(rx)[k].vars : m.sym = i => Shown(m.v) = Shown(g)
    OBVIOUS
  <2>1. k + 1 \in 1..Len(rx) /\ Tail(rx)[k] = rx[k + 1] BY <1>1, <1>2
  <2>2. IsLast(rx, top, i, k + 1) BY <1>4
  <2> QED BY <2>1, <2>2 DEF Follows
<1>6. ASSUME Unreported(Tail(rx), top, i)
      PROVE  \/ Shown(w) = Shown(g) /\ ~Stray(Tail(rx), top, i)
             \/ (i \in more \/ Stray(Tail(rx), top, i)) /\ (g = Unset \/ s = "window_url")
  <2>1. Stray(Tail(rx), top, i) => Stray(rx, top, i)
    <3> SUFFICES ASSUME NEW k \in 1..Len(Tail(rx)), Tail(rx)[k].load # top, Reports(Tail(rx)[k], i)
                 PROVE  Stray(rx, top, i)
      BY DEF Stray
    <3>1. k + 1 \in 1..Len(rx) /\ Tail(rx)[k] = rx[k + 1] BY <1>1, <1>2
    <3> QED BY <3>1 DEF Stray
  <2>2. CASE Reports(Head(rx), i) /\ Head(rx).load = top
    <3>0. \A j \in 1..Len(rx) : 1 < j => ~(rx[j].load = top /\ Reports(rx[j], i))
      BY <1>2, <1>3, <1>6 DEF Unreported
    <3>1. IsLast(rx, top, i, 1) BY <1>1, <2>2, <3>0 DEF IsLast
    <3>2. Shown(w) = Shown(g) BY <1>1, <1>2, <2>2, <3>1 DEF Follows
    <3>3. \A k \in 1..Len(Tail(rx)) : Tail(rx)[k].load = top
      <4> SUFFICES ASSUME NEW k \in 1..Len(Tail(rx)) PROVE Tail(rx)[k].load = top OBVIOUS
      <4>1. k + 1 \in 1..Len(rx) /\ 1 < k + 1 /\ Tail(rx)[k] = rx[k + 1] BY <1>1, <1>2
      <4>2. rx[1].load = top BY <1>1, <2>2
      <4>3. rx[1].load <= rx[k + 1].load /\ rx[k + 1].load <= top /\ rx[k + 1].load \in Nat
        BY <1>2, <4>1 DEF ResponsesBehind
      <4> QED BY <4>1, <4>2, <4>3
    <3> QED BY <3>2, <3>3 DEF Stray
  <2>3. CASE ~(Reports(Head(rx), i) /\ Head(rx).load = top)
    <3>1. Unreported(rx, top, i) BY <1>1, <1>3, <1>6, <2>3 DEF Unreported
    <3>2. CASE Shown(v) = Shown(g) /\ ~Stray(rx, top, i)
      <4>1. ~Reports(Head(rx), i) BY <1>1, <1>2, <2>3, <3>2 DEF Stray
      <4> QED BY <2>1, <3>2, <4>1
    <3>3. CASE (i \in strays \/ Stray(rx, top, i)) /\ (g = Unset \/ s = "window_url")
      <4>1. Stray(rx, top, i) => i \in more \/ Stray(Tail(rx), top, i)
        <5> SUFFICES ASSUME NEW k \in 1..Len(rx), rx[k].load # top, Reports(rx[k], i)
                     PROVE  i \in more \/ Stray(Tail(rx), top, i)
          BY DEF Stray
        <5>1. CASE k = 1 BY <1>1, <5>1
        <5>2. CASE k # 1 BY <1>3, <5>2 DEF Stray
        <5> QED BY <5>1, <5>2
      <4> QED BY <3>3, <4>1
    <3> QED BY <3>1, <3>2, <3>3 DEF Follows
  <2> QED BY <2>2, <2>3
<1> QED BY <1>5, <1>6 DEF Follows

-----------------------------------------------------------------------------
(* The invariant is inductive. *)

LEMMA MirrorInitial == MirrorInit => MirrorIInv
<1> SUFFICES ASSUME MirrorInit PROVE MirrorIInv OBVIOUS
<1>1. tab.doc = session.doc /\ tab.store = <<>> /\ tab.doc.names = <<>> /\ session.load = 0 /\ loads = 0
  BY DEF MirrorInit
<1>2. Counted BY <1>1 DEF Counted
<1>3. Channels
  BY <1>1, EmptyChannel DEF Channels, MirrorInit, ReloadsAhead, ResponsesBehind
<1>4. Waiting BY <1>1 DEF Waiting
<1>5. Following BY <1>1 DEF Following
<1> QED BY <1>2, <1>3, <1>4, <1>5 DEF MirrorIInv

LEMMA LoadKeeps == ASSUME MirrorIInv, NEW doc, Load(doc) PROVE MirrorIInv'
<1>1. /\ loads \in Nat /\ session.load \in Nat /\ session.load <= loads
      /\ session' = session /\ logic_rx' = logic_rx /\ loads' = loads + 1
      /\ tab'.doc = doc /\ tab'.store = InitialStore(doc)
  BY DEF MirrorIInv, Counted, Load
<1>2. session'.load # loads' BY <1>1
<1>3. Counted' BY <1>1 DEF Counted, InitialStore
<1>4. Channels'
  <2> DEFINE x == [e |-> "Reload", doc |-> doc, initial |-> InitialVariables(doc), load |-> loads + 1]
  <2>1. x.e = "Reload" /\ x.load = loads + 1 /\ x.doc = doc /\ logic_tx' = Append(logic_tx, x) BY DEF Load
  <2> HIDE DEF x
  <2>2. IsChannel(logic_tx) /\ Len(logic_tx) \in Nat BY DEF MirrorIInv, Channels, IsChannel
  <2>3. /\ IsChannel(logic_tx') /\ Len(logic_tx') = Len(logic_tx) + 1 /\ logic_tx'[Len(logic_tx) + 1] = x
        /\ \A i \in 1..Len(logic_tx) : logic_tx'[i] = logic_tx[i]
    BY <2>1, <2>2, ChannelAppend
  <2>4. \A i \in 1..Len(logic_tx') : i \in 1..Len(logic_tx) \/ i = Len(logic_tx) + 1 BY <2>2, <2>3
  <2>5. \A i \in 1..Len(logic_tx) : logic_tx[i].e = "Reload" =>
          logic_tx[i].load \in Nat /\ session.load < logic_tx[i].load /\ logic_tx[i].load < loads + 1
    BY <1>1 DEF MirrorIInv, Channels, ReloadsAhead
  <2>6. ASSUME NEW i \in 1..Len(logic_tx'), logic_tx'[i].e = "Reload"
        PROVE  /\ logic_tx'[i].load \in Nat /\ session.load < logic_tx'[i].load /\ logic_tx'[i].load <= loads + 1
               /\ logic_tx'[i].load = loads + 1 => logic_tx'[i].doc = doc
               /\ \A j \in 1..Len(logic_tx') :
                    i < j /\ logic_tx'[j].e = "Reload" => logic_tx'[i].load < logic_tx'[j].load
    <3>1. CASE i \in 1..Len(logic_tx)
      <4>1. /\ logic_tx'[i].load \in Nat /\ session.load < logic_tx'[i].load /\ logic_tx'[i].load <= loads + 1
            /\ logic_tx'[i].load # loads + 1
        BY <1>1, <2>3, <2>5, <2>6, <3>1
      <4>2. \A j \in 1..Len(logic_tx) :
              i < j /\ logic_tx'[j].e = "Reload" => logic_tx'[i].load < logic_tx'[j].load
        BY <2>3, <2>6, <3>1 DEF MirrorIInv, Channels, ReloadsAhead
      <4>3. logic_tx'[i].load < logic_tx'[Len(logic_tx) + 1].load BY <2>1, <2>3, <2>5, <2>6, <3>1
      <4> QED BY <2>4, <4>1, <4>2, <4>3
    <3>2. CASE i = Len(logic_tx) + 1 BY <1>1, <2>1, <2>2, <2>3, <3>2
    <3> QED BY <2>4, <3>1, <3>2
  <2>7. ReloadsAhead(logic_tx', session.load, loads + 1, doc) BY <2>6 DEF ReloadsAhead
  <2> QED BY <1>1, <2>3, <2>7 DEF MirrorIInv, Channels
<1>5. Waiting' BY <1>1 DEF Waiting
<1>6. Following' BY <1>2 DEF Following
<1> QED BY <1>3, <1>4, <1>5, <1>6 DEF MirrorIInv

LEMMA EventsKeep ==
  ASSUME MirrorIInv, EventsSent
  PROVE  IsChannel(logic_tx') /\ ReloadsAhead(logic_tx', session.load, loads, tab.doc)
BY ReloadsLonger DEF MirrorIInv, Channels, EventsSent

LEMMA SendKeeps ==
  ASSUME MirrorIInv, EventsSent, UNCHANGED <<session, tab, logic_rx, foreign, loads>>
  PROVE  MirrorIInv'
<1>1. IsChannel(logic_tx') /\ ReloadsAhead(logic_tx', session.load, loads, tab.doc) BY EventsKeep
<1> QED BY <1>1 DEF MirrorIInv, Counted, Channels, Waiting, Following

LEMMA ReceiveKeeps == ASSUME MirrorIInv, EventsSent, Receive PROVE MirrorIInv'
<1> DEFINE r == Head(logic_rx)
<1>1. /\ logic_rx # <<>> /\ logic_rx' = Tail(logic_rx) /\ session' = session /\ loads' = loads
      /\ tab'.doc = tab.doc /\ tab'.store = Updated(tab.store, r.vars)
      /\ foreign' = IF r.load = loads THEN foreign ELSE foreign \cup WrittenTo(tab.store, r.vars)
  BY DEF Receive
<1>2. /\ loads \in Nat /\ session.load \in Nat /\ session.load <= loads
      /\ IsChannel(logic_rx) /\ ResponsesBehind(logic_rx, session.load)
  BY DEF MirrorIInv, Counted, Channels
<1>3. r.load \in Nat /\ r.load <= session.load
  <2>1. r = logic_rx[1] /\ 1 \in 1..Len(logic_rx) BY <1>1, <1>2, ChannelTail DEF IsChannel
  <2> QED BY <1>2, <2>1 DEF ResponsesBehind
<1> HIDE DEF r
<1>4. DOMAIN tab'.store = DOMAIN tab.store BY <1>1 DEF Updated
<1>5. \A i \in DOMAIN tab.store :
        /\ Reports(r, i) => \E m \in r.vars : m.sym = i /\ tab'.store[i] = m.v
        /\ ~Reports(r, i) => tab'.store[i] = tab.store[i]
        /\ Reports(r, i) /\ r.load # loads => i \in foreign'
        /\ i \in foreign => i \in foreign'
  <2> SUFFICES ASSUME NEW i \in DOMAIN tab.store
               PROVE  /\ Reports(r, i) => \E m \in r.vars : m.sym = i /\ tab'.store[i] = m.v
                      /\ ~Reports(r, i) => tab'.store[i] = tab.store[i]
                      /\ Reports(r, i) /\ r.load # loads => i \in foreign'
                      /\ i \in foreign => i \in foreign'
    OBVIOUS
  <2>1. i \in WrittenTo(tab.store, r.vars) <=> Reports(r, i) BY DEF WrittenTo, Reports
  <2>2. tab'.store[i] = IF i \in WrittenTo(tab.store, r.vars) THEN (CHOOSE m \in r.vars : m.sym = i).v ELSE tab.store[i]
    BY <1>1 DEF Updated
  <2>3. ASSUME Reports(r, i) PROVE \E m \in r.vars : m.sym = i /\ tab'.store[i] = m.v
    <3>1. PICK m \in r.vars : m.sym = i BY <2>3 DEF Reports
    <3> QED BY <2>1, <2>2, <2>3, <3>1
  <2> QED BY <1>1, <2>1, <2>2, <2>3
<1>6. Counted' BY <1>1, <1>4 DEF MirrorIInv, Counted
<1>7. Channels' BY <1>1, <1>2, EventsKeep, ResponsesTail DEF Channels
<1>8. Waiting'
  <2> SUFFICES ASSUME session.load # loads, NEW i \in DOMAIN tab.store
               PROVE  tab'.store[i] = InitialStore(tab.doc)[i] \/ i \in foreign'
    BY <1>1, <1>4 DEF Waiting
  <2>1. r.load # loads BY <1>2, <1>3
  <2>2. tab.store[i] = InitialStore(tab.doc)[i] \/ i \in foreign BY DEF MirrorIInv, Waiting
  <2> QED BY <1>5, <2>1, <2>2
<1>9. Following'
  <2> DEFINE s(i) == tab.doc.names[i]
             g(i) == session.ev.globals[tab.doc.names[i]]
  <2> SUFFICES ASSUME session.load = loads, NEW i \in DOMAIN tab.doc.names
               PROVE  Follows(Tail(logic_rx), loads, i, s(i), g(i), tab'.store[i], foreign')
    BY <1>1 DEF Following
  <2>1. i \in DOMAIN tab.store BY DEF MirrorIInv, Counted
  <2>2. Follows(logic_rx, loads, i, s(i), g(i), tab.store[i], foreign) BY DEF MirrorIInv, Following
  <2>3. ResponsesBehind(logic_rx, loads) BY <1>2
  <2> HIDE DEF s, g
  <2> QED BY <1>1, <1>2, <1>5, <2>1, <2>2, <2>3, FollowsTail DEF r
<1> QED BY <1>6, <1>7, <1>8, <1>9 DEF MirrorIInv

\* What a response of the session's load says of each variable.
LEMMA ResponseMeans ==
  ASSUME NEW vars, NEW was, NEW now, Reported(vars, was, now)
  PROVE  /\ \A a, b \in vars : a.sym = b.sym => a.v = b.v
         /\ \A i \in DOMAIN now : \A m \in vars : m.sym = i => m.v = now[i]
         /\ \A i \in DOMAIN now : (\A m \in vars : m.sym # i) =>
              Shown(now[i]) = Shown(was[i]) /\ (was[i] = Unset => now[i] = Unset)
BY DEF Reported

LEMMA ReloadKeeps == ASSUME MirrorIInv, TakesReload PROVE MirrorIInv'
<1> DEFINE e == Head(logic_tx)
           r == logic_rx'[Len(logic_rx) + 1]
           now == Held(e.doc, session'.ev.globals)
<1>1. /\ logic_tx # <<>> /\ logic_tx' = Tail(logic_tx) /\ e.e = "Reload"
      /\ tab' = tab /\ foreign' = foreign /\ loads' = loads
      /\ session'.doc = e.doc /\ session'.load = e.load
  BY DEF TakesReload, Takes
<1>2. /\ Longer(logic_rx', logic_rx) /\ Len(logic_rx') = Len(logic_rx) + 1
      /\ r.load = e.load /\ Reported(r.vars, InitialStore(e.doc), now)
  BY <1>1 DEF TakesReload, Responds
<1>3. /\ loads \in Nat /\ session.load \in Nat /\ session.load <= loads /\ DOMAIN tab.store = DOMAIN tab.doc.names
      /\ IsChannel(logic_tx) /\ ReloadsAhead(logic_tx, session.load, loads, tab.doc)
      /\ IsChannel(logic_rx) /\ ResponsesBehind(logic_rx, session.load)
  BY DEF MirrorIInv, Counted, Channels
<1>4. /\ IsChannel(logic_tx') /\ ReloadsAhead(logic_tx', e.load, loads, tab.doc)
      /\ e.load \in Nat /\ session.load < e.load /\ e.load <= loads
      /\ e.load = loads => e.doc = tab.doc
  BY <1>1, <1>3, ReloadsTail
<1>5. /\ \A a, b \in r.vars : a.sym = b.sym => a.v = b.v
      /\ \A i \in DOMAIN now : \A m \in r.vars : m.sym = i => m.v = now[i]
      /\ \A i \in DOMAIN now : (\A m \in r.vars : m.sym # i) =>
           /\ Shown(now[i]) = Shown(InitialStore(e.doc)[i])
           /\ InitialStore(e.doc)[i] = Unset => now[i] = Unset
  BY <1>2, ResponseMeans
<1>6. /\ DOMAIN now = DOMAIN e.doc.names
      /\ \A i \in DOMAIN e.doc.names :
           /\ now[i] = session'.ev.globals[e.doc.names[i]]
           /\ InitialStore(e.doc)[i] = Unset \/ e.doc.names[i] = "window_url"
  BY DEF Held, InitialStore
<1> HIDE DEF e, r, now
<1>7. Counted' BY <1>1, <1>3, <1>4 DEF Counted
<1>8. Channels'
  <2>1. IsChannel(logic_rx') /\ ResponsesBehind(logic_rx', e.load)
    BY <1>2, <1>3, <1>4, <1>5, ResponsesLonger DEF r
  <2> QED BY <1>1, <1>4, <2>1 DEF Channels
<1>9. Waiting' BY <1>1, <1>3, <1>4 DEF MirrorIInv, Waiting
<1>10. Following'
  <2> SUFFICES ASSUME e.load = loads, NEW i \in DOMAIN tab.doc.names
               PROVE  Follows(logic_rx', loads, i, tab.doc.names[i], now[i], tab.store[i], foreign)
    BY <1>1, <1>4, <1>6 DEF Following
  <2>1. e.doc = tab.doc /\ i \in DOMAIN now BY <1>4, <1>6
  <2>2. CASE Reports(r, i)
    <3>1. \A m \in r.vars : m.sym = i => m.v = now[i] BY <1>5, <2>1
    <3> QED BY <1>2, <1>3, <2>2, <3>1, FollowsReport DEF r
  <2>3. CASE ~Reports(r, i)
    <3>1. \A m \in r.vars : m.sym # i BY <2>3 DEF Reports
    <3>2. \A k \in 1..Len(logic_rx) : logic_rx[k].load # loads
      BY <1>3, <1>4 DEF ResponsesBehind
    <3>3. tab.store[i] = InitialStore(tab.doc)[i] \/ i \in foreign
      BY <1>3, <1>4 DEF MirrorIInv, Waiting
    <3>4. i \in foreign \/ Shown(tab.store[i]) = Shown(now[i]) BY <1>5, <2>1, <3>1, <3>3
    <3>5. now[i] = Unset \/ tab.doc.names[i] = "window_url" BY <1>5, <1>6, <2>1, <3>1
    <3> QED BY <1>2, <1>3, <2>3, <3>2, <3>4, <3>5, FollowsFirst DEF r
  <2> QED BY <2>2, <2>3
<1> QED BY <1>7, <1>8, <1>9, <1>10 DEF MirrorIInv

LEMMA EventKeeps == ASSUME MirrorIInv, TakesEvent PROVE MirrorIInv'
<1> DEFINE r == logic_rx'[Len(logic_rx) + 1]
           was == Held(session.doc, session.ev.globals)
           now == Held(session.doc, session'.ev.globals)
<1>1. /\ logic_tx # <<>> /\ logic_tx' = Tail(logic_tx)
      /\ tab' = tab /\ foreign' = foreign /\ loads' = loads
      /\ session'.doc = session.doc /\ session'.load = session.load
  BY DEF TakesEvent, Takes
<1>2. /\ loads \in Nat /\ session.load \in Nat /\ session.load <= loads /\ DOMAIN tab.store = DOMAIN tab.doc.names
      /\ IsChannel(logic_tx) /\ ReloadsAhead(logic_tx, session.load, loads, tab.doc)
      /\ IsChannel(logic_rx) /\ ResponsesBehind(logic_rx, session.load)
  BY DEF MirrorIInv, Counted, Channels
<1>3. IsChannel(logic_tx') /\ ReloadsAhead(logic_tx', session.load, loads, tab.doc)
  BY <1>1, <1>2, ReloadsTail
<1>4. Counted' BY <1>1 DEF MirrorIInv, Counted
<1>5. Waiting' BY <1>1 DEF MirrorIInv, Waiting
<1>6. CASE Responds(was)
  <2>1. /\ Longer(logic_rx', logic_rx) /\ Len(logic_rx') = Len(logic_rx) + 1
        /\ r.load = session.load /\ Reported(r.vars, was, now)
    BY <1>1, <1>6 DEF Responds
  <2>2. /\ \A a, b \in r.vars : a.sym = b.sym => a.v = b.v
        /\ \A i \in DOMAIN now : \A m \in r.vars : m.sym = i => m.v = now[i]
        /\ \A i \in DOMAIN now : (\A m \in r.vars : m.sym # i) =>
             Shown(now[i]) = Shown(was[i]) /\ (was[i] = Unset => now[i] = Unset)
    BY <2>1, ResponseMeans
  <2>3. /\ DOMAIN now = DOMAIN session.doc.names
        /\ \A i \in DOMAIN session.doc.names :
             /\ now[i] = session'.ev.globals[session.doc.names[i]]
             /\ was[i] = session.ev.globals[session.doc.names[i]]
    BY DEF Held
  <2> HIDE DEF r, was, now
  <2>4. Channels'
    <3>1. IsChannel(logic_rx') /\ ResponsesBehind(logic_rx', session.load)
      BY <1>2, <2>1, <2>2, ResponsesLonger DEF r
    <3> QED BY <1>1, <1>3, <3>1 DEF Channels
  <2>5. Following'
    <3> SUFFICES ASSUME session.load = loads, NEW i \in DOMAIN tab.doc.names
                 PROVE  Follows(logic_rx', loads, i, tab.doc.names[i], session'.ev.globals[tab.doc.names[i]],
                                tab.store[i], foreign)
      BY <1>1 DEF Following
    <3>1. session.doc = tab.doc BY DEF MirrorIInv, Counted
    <3>2. /\ i \in DOMAIN now /\ now[i] = session'.ev.globals[tab.doc.names[i]]
          /\ was[i] = session.ev.globals[tab.doc.names[i]]
      BY <2>3, <3>1
    <3>3. Follows(logic_rx, loads, i, tab.doc.names[i], was[i], tab.store[i], foreign)
      BY <3>2 DEF MirrorIInv, Following
    <3>4. CASE Reports(r, i)
      <4>1. \A m \in r.vars : m.sym = i => m.v = now[i] BY <2>2, <3>2
      <4>2. Follows(logic_rx', loads, i, tab.doc.names[i], now[i], tab.store[i], foreign)
        BY <1>2, <2>1, <3>4, <4>1, FollowsReport DEF r
      <4> QED BY <3>2, <4>2
    <3>5. CASE ~Reports(r, i)
      <4>1. Shown(now[i]) = Shown(was[i]) /\ (was[i] = Unset => now[i] = Unset)
        BY <2>2, <3>2, <3>5 DEF Reports
      <4>2. Follows(logic_rx', loads, i, tab.doc.names[i], now[i], tab.store[i], foreign)
        BY <1>2, <2>1, <3>3, <3>5, <4>1, FollowsUnreported DEF r
      <4> QED BY <3>2, <4>2
    <3> QED BY <3>4, <3>5
  <2> QED BY <1>4, <1>5, <2>4, <2>5 DEF MirrorIInv
<1>7. CASE UNCHANGED <<session.ev.globals, logic_rx>>
  <2>1. Channels' BY <1>1, <1>2, <1>3, <1>7 DEF Channels
  <2>2. Following' BY <1>1, <1>7 DEF MirrorIInv, Following
  <2> QED BY <1>4, <1>5, <2>1, <2>2 DEF MirrorIInv
<1> QED BY <1>6, <1>7 DEF TakesEvent

LEMMA MirrorInductive == MirrorIInv /\ [MirrorNext]_mirrorVars => MirrorIInv'
<1> SUFFICES ASSUME MirrorIInv, [MirrorNext]_mirrorVars PROVE MirrorIInv' OBVIOUS
<1>1. CASE \E doc \in Documents : Load(doc) BY <1>1, LoadKeeps
<1>2. CASE EventsSent /\ Receive BY <1>2, ReceiveKeeps
<1>3. CASE EventsSent /\ UNCHANGED <<session, tab, logic_rx, foreign, loads>> BY <1>3, SendKeeps
<1>4. CASE TakesReload BY <1>4, ReloadKeeps
<1>5. CASE TakesEvent BY <1>5, EventKeeps
<1>6. CASE UNCHANGED mirrorVars
  BY <1>6 DEF mirrorVars, MirrorIInv, Counted, Channels, Waiting, Following
<1> QED BY <1>1, <1>2, <1>3, <1>4, <1>5, <1>6 DEF MirrorNext

LEMMA MirrorMeans == MirrorIInv => UiShowsSession
<1> SUFFICES ASSUME MirrorIInv, Settled, NEW i \in DOMAIN tab.doc.names,
                    i \notin foreign \/ (session.ev.globals[tab.doc.names[i]] # Unset
                                         /\ tab.doc.names[i] # "window_url")
             PROVE  Shown(tab.store[i]) = Shown(session.ev.globals[tab.doc.names[i]])
  BY DEF UiShowsSession
<1>1. Follows(logic_rx, loads, i, tab.doc.names[i], session.ev.globals[tab.doc.names[i]], tab.store[i], foreign)
  BY DEF MirrorIInv, Following, Settled
<1>2. Len(logic_rx) = 0 BY EmptyChannel DEF Settled
<1>3. Unreported(logic_rx, loads, i) /\ ~Stray(logic_rx, loads, i) BY <1>2 DEF Unreported, Stray
<1> QED BY <1>1, <1>3 DEF Follows

-----------------------------------------------------------------------------

\* drain_logic_worker_results and build_response: whatever documents are loaded,
\* however often and with whatever still on its way, and whatever the session
\* computes, once the channels are empty the UI shows what the session holds,
\* but for writes of another document's responses on variables that the
\* document shown has never given a value or that the load supplied.
THEOREM MirrorShowsSession == MirrorSpec => []UiShowsSession
<1>1. MirrorSpec => []MirrorIInv BY MirrorInitial, MirrorInductive, PTL DEF MirrorSpec
<1> QED BY <1>1, MirrorMeans, PTL
=============================================================================
