------------------------- MODULE CommunicatorProofs -------------------------
(***************************************************************************)
(* Proofs about Communicator: the ends agree on what they share, no end is *)
(* stopped by a packet it has no handler for, and no packet is lost        *)
(* between them, for any capabilities and any amount of noise.             *)
(***************************************************************************)
EXTENDS Communicator, TLAPS

\* The lines that are in a sequence of lines.
LinesOf(s) == {s[i] : i \in DOMAIN s}

(***************************************************************************)
(* The inductive invariant. Nobody's remote capabilities are more than the *)
(* other end has, and the worker has welcomed the runner's before it says  *)
(* hello, so the runner never relies on more than the worker knows.        *)
(***************************************************************************)
CapInv ==
    /\ \A e \in Ends : remote[e] \subseteq local[Peer(e)]
    /\ local["runner"] \cap remote["runner"] \subseteq remote["worker"]
    /\ pc["worker"] = "hello" => local["runner"] \subseteq remote["worker"]
    /\ pc["worker"] # "welcome" /\ pc["runner"] # "hello"

\* A sender's packet of type g may be sent: both ends have its capability.
Entitled(g) == g # "shutdown" => \A e \in Ends : g \in local[e]

\* What a line on its way to end e says is true.
LineOK(e, p) ==
    /\ p.type = "welcome" => e = "worker" /\ p.caps = local["runner"]
    /\ p.type = "hello" => /\ e = "runner" /\ p.caps = local["worker"]
                           /\ local["runner"] \subseteq remote["worker"]
    /\ p.type \in Senders => EndOf(p.type) = Peer(e) /\ Entitled(p.type)

LineInv ==
    \A e \in Ends :
        /\ \A p \in LinesOf(input[e]) : LineOK(e, p)
        /\ \A p \in LinesOf(old[e]) : p.type \in Senders /\ LineOK(Peer(e), p)

SenderInv == \A g \in Senders : sender[g] # "idle" => Entitled(g)

CommInv == TypeOK /\ CapInv /\ LineInv /\ SenderInv /\ OnlyHandledPackets

-----------------------------------------------------------------------------
(* Lines in sequences. *)

\* Each end is the peer of its peer.
LEMMA Peers ==
    /\ Peer("worker") = "runner" /\ Peer("runner") = "worker"
    /\ \A e \in Ends : Peer(e) \in Ends /\ Peer(e) # e /\ Peer(Peer(e)) = e
    /\ \A g \in Senders : EndOf(g) \in Ends
BY DEF Peer, Ends, EndOf

\* The lines of a concatenation are those of its parts.
LEMMA LinesOfConcat ==
    ASSUME NEW s \in Seq(Lines), NEW t \in Seq(Lines)
    PROVE  s \o t \in Seq(Lines) /\ LinesOf(s \o t) \subseteq LinesOf(s) \cup LinesOf(t)
<1>1. /\ s \o t \in Seq(Lines) /\ Len(s) \in Nat /\ Len(t) \in Nat
      /\ DOMAIN (s \o t) = 1 .. Len(s) + Len(t)
      /\ DOMAIN s = 1 .. Len(s) /\ DOMAIN t = 1 .. Len(t)
  OBVIOUS
<1>2. ASSUME NEW i \in DOMAIN (s \o t) PROVE (s \o t)[i] \in LinesOf(s) \cup LinesOf(t)
  <2>1. CASE i <= Len(s)
    BY <1>1, <2>1 DEF LinesOf
  <2>2. CASE i > Len(s)
    <3>1. i - Len(s) \in DOMAIN t /\ (s \o t)[i] = t[i - Len(s)]
      BY <1>1, <2>2
    <3> QED
      BY <3>1 DEF LinesOf
  <2> QED
    BY <1>1, <2>1, <2>2
<1> QED
  BY <1>1, <1>2 DEF LinesOf

\* The first line, and the lines that are left when it has been read.
LEMMA LinesOfTail ==
    ASSUME NEW s \in Seq(Lines), s # << >>
    PROVE  /\ Head(s) \in LinesOf(s) /\ Head(s) \in Lines
           /\ Tail(s) \in Seq(Lines) /\ LinesOf(Tail(s)) \subseteq LinesOf(s)
<1>1. /\ Head(s) = s[1] /\ 1 \in DOMAIN s /\ Head(s) \in Lines /\ Tail(s) \in Seq(Lines)
      /\ \A i \in DOMAIN Tail(s) : i + 1 \in DOMAIN s /\ Tail(s)[i] = s[i + 1]
  OBVIOUS
<1> QED
  BY <1>1 DEF LinesOf

\* A sequence of one line.
LEMMA LinesOfOne ==
    ASSUME NEW p \in Lines PROVE <<p>> \in Seq(Lines) /\ LinesOf(<<p>>) = {p}
BY DEF LinesOf

\* What is on its way after a delivery.
LEMMA Delivered ==
    ASSUME TypeOK, NEW e \in Ends, NEW s \in Seq(Lines), Deliver(e, s)
    PROVE  /\ input' \in [Ends -> Seq(Lines)]
           /\ \A f \in Ends : \A p \in LinesOf(input'[f]) :
                 p \in LinesOf(input[f]) \/ (f = Peer(e) /\ p \in LinesOf(s))
<1>1. /\ input \in [Ends -> Seq(Lines)] /\ Peer(e) \in Ends
      /\ input' = [input EXCEPT ![Peer(e)] = input[Peer(e)] \o s]
  BY Peers DEF TypeOK, Deliver
<1>2. /\ input[Peer(e)] \o s \in Seq(Lines)
      /\ LinesOf(input[Peer(e)] \o s) \subseteq LinesOf(input[Peer(e)]) \cup LinesOf(s)
  BY <1>1, LinesOfConcat
<1> QED
  BY <1>1, <1>2

\* What is on its way after a line has been read.
LEMMA LineRead ==
    ASSUME TypeOK, NEW e \in Ends, input[e] # << >>, ReadLine(e)
    PROVE  /\ input' \in [Ends -> Seq(Lines)]
           /\ Head(input[e]) \in LinesOf(input[e]) /\ Head(input[e]) \in Lines
           /\ \A f \in Ends : \A p \in LinesOf(input'[f]) : p \in LinesOf(input[f])
<1>1. /\ input \in [Ends -> Seq(Lines)]
      /\ input' = [input EXCEPT ![e] = Tail(input[e])]
  BY DEF TypeOK, ReadLine
<1>2. /\ Head(input[e]) \in LinesOf(input[e]) /\ Head(input[e]) \in Lines
      /\ Tail(input[e]) \in Seq(Lines) /\ LinesOf(Tail(input[e])) \subseteq LinesOf(input[e])
  BY <1>1, LinesOfTail
<1> QED
  BY <1>1, <1>2

\* A line that is true stays true: capabilities are only learnt.
LEMMA LineStaysOK ==
    ASSUME NEW e, NEW p, LineOK(e, p), UNCHANGED local,
           remote["worker"] \subseteq remote'["worker"]
    PROVE  LineOK(e, p)'
BY DEF LineOK, Entitled

\* The lines that are new are the ones to look at.
LEMMA LinesStayOK ==
    ASSUME LineInv, UNCHANGED local, remote["worker"] \subseteq remote'["worker"],
           \A e \in Ends : \A p \in LinesOf(input'[e]) :
              p \in LinesOf(input[e]) \/ LineOK(e, p)',
           \A e \in Ends : \A p \in LinesOf(old'[e]) :
              p \in LinesOf(old[e]) \/ (p.type \in Senders /\ LineOK(Peer(e), p)')
    PROVE  LineInv'
<1>1. ASSUME NEW e \in Ends, NEW p \in LinesOf(input'[e]) PROVE LineOK(e, p)'
  BY LineStaysOK DEF LineInv
<1>2. ASSUME NEW e \in Ends, NEW p \in LinesOf(old'[e])
      PROVE  p.type \in Senders /\ LineOK(Peer(e), p)'
  BY LineStaysOK DEF LineInv
<1> QED
  BY <1>1, <1>2 DEF LineInv, LinesOf, Peer

-----------------------------------------------------------------------------
(* The inductive step, one lemma for each kind of action. *)

\* At the start nothing is known and nothing is on its way.
LEMMA InitCommInv == Init => CommInv
<1> SUFFICES ASSUME Init PROVE CommInv
  OBVIOUS
<1>e. << >> \in Seq(Lines) /\ LinesOf(<< >>) = {}
  BY DEF LinesOf
<1>1. TypeOK
  <2>1. local \in [Ends -> SUBSET Caps] /\ remote \in [Ends -> SUBSET Caps]
        /\ got \in [Ends -> SUBSET LineTypes]
    BY DEF Init
  <2>2. /\ pc \in [Ends -> {"new", "welcome", "copy", "parse", "hello", "ended", "panic"}]
        /\ cause \in [Ends -> LineTypes \cup {"none", "eof"}]
        /\ writer \in [Ends -> {"buffer", "stream"}]
        /\ sender \in [Senders -> {"idle", "buffer", "stream", "done"}]
    BY DEF Init
  <2>3. old \in [Ends -> Seq(Lines)] /\ input \in [Ends -> Seq(Lines)]
    BY <1>e DEF Init
  <2>4. noise \in 0 .. MaxNoise
    BY NoiseAssumption DEF Init
  <2> QED
    BY <2>1, <2>2, <2>3, <2>4 DEF TypeOK
<1>2. CapInv
  BY DEF Init, CapInv, Ends
<1>3. LineInv
  BY <1>e DEF Init, LineInv
<1>4. SenderInv
  BY DEF Init, SenderInv
<1>5. OnlyHandledPackets
  BY DEF Init, OnlyHandledPackets, LineTypes, Senders
<1> QED
  BY <1>1, <1>2, <1>3, <1>4, <1>5 DEF CommInv

\* Run replaces the writer, or the stream is closed.
LEMMA TurnsCommInv ==
    ASSUME CommInv, NEW e \in Ends, StartRun(e) \/ OnEOF(e) PROVE CommInv'
<1>typ. TypeOK
  BY DEF CommInv
<1>same. UNCHANGED <<local, remote, old, input, got, sender, noise>>
  BY DEF StartRun, OnEOF
<1>pc. \/ StartRun(e) /\ pc' = [pc EXCEPT ![e] = IF e = "worker" THEN "copy" ELSE "welcome"]
          /\ cause' = cause /\ writer' = [writer EXCEPT ![e] = "stream"]
       \/ pc' = [pc EXCEPT ![e] = "ended"] /\ cause' = [cause EXCEPT ![e] = "eof"]
          /\ writer' = writer
  BY DEF StartRun, OnEOF, GoesTo, Returns
<1>1. TypeOK'
  <2>1. /\ pc' \in [Ends -> {"new", "welcome", "copy", "parse", "hello", "ended", "panic"}]
        /\ cause' \in [Ends -> LineTypes \cup {"none", "eof"}]
        /\ writer' \in [Ends -> {"buffer", "stream"}]
    BY <1>typ, <1>pc DEF TypeOK
  <2> QED
    BY <1>typ, <1>same, <2>1, Zenon DEF TypeOK
<1>2. CapInv'
  BY <1>typ, <1>same, <1>pc DEF CommInv, CapInv, TypeOK, Ends
<1>3. LineInv'
  BY <1>same, LinesStayOK DEF CommInv
<1>4. SenderInv'
  BY <1>same DEF CommInv, SenderInv, Entitled
<1>5. OnlyHandledPackets'
  <2>1. CASE cause' = cause
    BY <1>same, <2>1 DEF CommInv, OnlyHandledPackets
  <2>2. CASE cause' = [cause EXCEPT ![e] = "eof"]
    <3>1. "eof" \notin LineTypes
      BY DEF LineTypes, Senders
    <3>2. \A f \in Ends : cause'[f] = "eof" \/ cause'[f] = cause[f]
      BY <1>typ, <2>2 DEF TypeOK
    <3> QED
      BY <1>same, <3>1, <3>2, Zenon DEF CommInv, OnlyHandledPackets
  <2> QED
    BY <1>pc, <2>1, <2>2
<1> QED
  BY <1>1, <1>2, <1>3, <1>4, <1>5 DEF CommInv

\* Run writes to the stream: the welcome, what was sent before, the hello.
LEMMA WritesCommInv ==
    ASSUME CommInv, NEW e \in Ends, SendWelcome(e) \/ CopyOldWriter(e) \/ SendHello(e)
    PROVE  CommInv'
<1>typ. TypeOK
  BY DEF CommInv
<1>same. UNCHANGED <<local, remote, cause, writer, got, sender, noise>>
  BY DEF SendWelcome, CopyOldWriter, SendHello, GoesTo
<1>pc. /\ pc' \in {[pc EXCEPT ![e] = "copy"], [pc EXCEPT ![e] = "parse"]}
       /\ old' = old \/ old' = [old EXCEPT ![e] = << >>]
  BY DEF SendWelcome, CopyOldWriter, SendHello, GoesTo
<1>s. PICK s \in Seq(Lines) : Deliver(e, s) /\ \A p \in LinesOf(s) : LineOK(Peer(e), p)
  <2>1. CASE SendWelcome(e)
    <3>1. Packet("welcome", local[e]) \in Lines
      BY <1>typ DEF Packet, Lines, LineTypes, TypeOK
    <3>2. e = "runner"
      BY <2>1 DEF SendWelcome, CommInv, CapInv, Ends
    <3>3. LineOK(Peer(e), Packet("welcome", local[e]))
      BY <3>2, Peers DEF LineOK, Packet, Senders
    <3> QED
      BY <2>1, <3>1, <3>3, LinesOfOne DEF SendWelcome
  <2>2. CASE CopyOldWriter(e)
    BY <1>typ, <2>2 DEF CopyOldWriter, CommInv, LineInv, TypeOK
  <2>3. CASE SendHello(e)
    <3>1. Packet("hello", local[e]) \in Lines
      BY <1>typ DEF Packet, Lines, LineTypes, TypeOK
    <3>2. e = "worker" /\ local["runner"] \subseteq remote["worker"]
      BY <2>3 DEF SendHello, CommInv, CapInv, Ends
    <3>3. LineOK(Peer(e), Packet("hello", local[e]))
      BY <3>2, Peers DEF LineOK, Packet, Senders
    <3> QED
      BY <2>3, <3>1, <3>3, LinesOfOne DEF SendHello
  <2> QED
    BY <2>1, <2>2, <2>3
<1>1. TypeOK'
  <2>1. input' \in [Ends -> Seq(Lines)]
    BY <1>typ, <1>s, Delivered
  <2>2. old' \in [Ends -> Seq(Lines)]
    <3>1. old \in [Ends -> Seq(Lines)] /\ << >> \in Seq(Lines)
      BY <1>typ DEF TypeOK
    <3> QED
      BY <1>pc, <3>1
  <2>3. pc' \in [Ends -> {"new", "welcome", "copy", "parse", "hello", "ended", "panic"}]
    BY <1>typ, <1>pc DEF TypeOK
  <2> QED
    BY <1>typ, <1>same, <2>1, <2>2, <2>3, Zenon DEF TypeOK
<1>2. CapInv'
  BY <1>typ, <1>same, <1>pc DEF CommInv, CapInv, TypeOK, Ends
<1>3. LineInv'
  <2>1. ASSUME NEW f \in Ends, NEW p \in LinesOf(input'[f])
        PROVE  p \in LinesOf(input[f]) \/ LineOK(f, p)'
    BY <1>typ, <1>s, <1>same, Delivered, LineStaysOK
  <2>2. ASSUME NEW f \in Ends, NEW p \in LinesOf(old'[f]) PROVE p \in LinesOf(old[f])
    <3>1. old \in [Ends -> Seq(Lines)] /\ LinesOf(<< >>) = {}
      BY <1>typ DEF TypeOK, LinesOf
    <3>2. old'[f] = old[f] \/ old'[f] = << >>
      BY <1>pc, <3>1
    <3> QED
      BY <3>1, <3>2
  <2> QED
    BY <1>same, <2>1, <2>2, LinesStayOK DEF CommInv
<1>4. SenderInv'
  BY <1>same DEF CommInv, SenderInv, Entitled
<1>5. OnlyHandledPackets'
  BY <1>same DEF CommInv, OnlyHandledPackets
<1> QED
  BY <1>1, <1>2, <1>3, <1>4, <1>5 DEF CommInv

\* The handshake: an end learns the capabilities of the other one.
LEMMA MeetsCommInv ==
    ASSUME CommInv, NEW e \in Ends, OnHello(e) \/ OnWelcome(e) PROVE CommInv'
<1> DEFINE h == Head(input[e])
<1>typ. TypeOK
  BY DEF CommInv
<1>same. UNCHANGED <<local, cause, writer, old, sender, noise>>
  BY DEF OnHello, OnWelcome, runVars, GoesTo
<1>in. input[e] # << >> /\ ReadLine(e) /\ h.type \in {"hello", "welcome"}
  BY DEF OnHello, OnWelcome, Reading, Meets
<1>line. /\ input' \in [Ends -> Seq(Lines)] /\ h \in LinesOf(input[e]) /\ h \in Lines
         /\ \A f \in Ends : \A p \in LinesOf(input'[f]) : p \in LinesOf(input[f])
  BY <1>typ, <1>in, LineRead
<1>ok. LineOK(e, h) /\ h.caps \subseteq Caps
  BY <1>line DEF CommInv, LineInv, Lines
<1>new. /\ remote' = [remote EXCEPT ![e] = remote[e] \cup h.caps]
        /\ got' = [got EXCEPT ![e] = got[e] \cup {h.type}]
        /\ \/ h.type = "hello" /\ pc' = pc
           \/ h.type = "welcome" /\ pc' = [pc EXCEPT ![e] = "hello"]
  BY DEF OnHello, OnWelcome, Meets, Reading, runVars, GoesTo
<1> HIDE DEF h
<1>1. TypeOK'
  <2>1. remote' \in [Ends -> SUBSET Caps]
    BY <1>typ, <1>ok, <1>new DEF TypeOK
  <2>2. got' \in [Ends -> SUBSET LineTypes]
    BY <1>typ, <1>in, <1>new DEF TypeOK, LineTypes
  <2>3. pc' \in [Ends -> {"new", "welcome", "copy", "parse", "hello", "ended", "panic"}]
    BY <1>typ, <1>new DEF TypeOK
  <2> QED
    BY <1>typ, <1>same, <1>line, <2>1, <2>2, <2>3, Zenon DEF TypeOK
<1>rem. remote["worker"] \subseteq remote'["worker"]
  BY <1>typ, <1>new DEF TypeOK, Ends
<1>2. CapInv'
  <2>1. CASE h.type = "hello"
    <3>1. /\ e = "runner" /\ h.caps = local["worker"] /\ pc' = pc
          /\ local["runner"] \subseteq remote["worker"]
      BY <1>ok, <1>new, <2>1 DEF LineOK
    <3>2. /\ remote'["worker"] = remote["worker"]
          /\ remote'["runner"] = remote["runner"] \cup local["worker"]
      BY <1>typ, <1>new, <3>1 DEF TypeOK, Ends
    <3> QED
      BY <1>same, <3>1, <3>2, Peers DEF CommInv, CapInv, Ends
  <2>2. CASE h.type = "welcome"
    <3>1. e = "worker" /\ h.caps = local["runner"] /\ pc' = [pc EXCEPT !["worker"] = "hello"]
      BY <1>ok, <1>new, <2>2 DEF LineOK
    <3>2. /\ remote'["worker"] = remote["worker"] \cup local["runner"]
          /\ remote'["runner"] = remote["runner"]
          /\ pc'["worker"] = "hello" /\ pc'["runner"] = pc["runner"]
      BY <1>typ, <1>new, <3>1 DEF TypeOK, Ends
    <3> QED
      BY <1>same, <3>1, <3>2, Peers DEF CommInv, CapInv, Ends
  <2> QED
    BY <1>in, <2>1, <2>2
<1>3. LineInv'
  BY <1>same, <1>line, <1>rem, LinesStayOK DEF CommInv
<1>4. SenderInv'
  BY <1>same DEF CommInv, SenderInv, Entitled
<1>5. OnlyHandledPackets'
  BY <1>same DEF CommInv, OnlyHandledPackets
<1> QED
  BY <1>1, <1>2, <1>3, <1>4, <1>5 DEF CommInv

\* A packet that is on its way to an end has a handler there, or is a request
\* for a shutdown that the runner does not support.
LEMMA PacketHasHandler ==
    ASSUME CommInv, NEW e \in Ends, NEW t \in Senders, Reading(e, t)
    PROVE  \/ t \in Handlers(e)
           \/ e = "runner" /\ t = "shutdown" /\ "shutdown" \notin local["runner"]
<1>1. Head(input[e]) \in LinesOf(input[e])
  BY LinesOfTail DEF CommInv, TypeOK, Reading
<1>2. EndOf(t) = Peer(e) /\ Entitled(t)
  BY <1>1 DEF CommInv, LineInv, LineOK, Reading
<1> QED
  BY <1>2 DEF Ends, Senders, Peer, EndOf, Entitled, Handlers

\* A packet for a handler, or a line that is no packet.
LEMMA OthersCommInv ==
    ASSUME CommInv, NEW e \in Ends, (\E t \in Senders : OnPacket(e, t)) \/ OnNoise(e)
    PROVE  CommInv'
<1>typ. TypeOK
  BY DEF CommInv
<1>same. UNCHANGED <<local, remote, writer, old, sender, noise>>
  BY DEF OnPacket, OnNoise
<1>in. input[e] # << >> /\ ReadLine(e)
  BY DEF OnPacket, OnNoise, Reading
<1>line. /\ input' \in [Ends -> Seq(Lines)]
         /\ \A f \in Ends : \A p \in LinesOf(input'[f]) : p \in LinesOf(input[f])
  BY <1>typ, <1>in, LineRead
<1>got. got' = got \/ \E t \in Senders : got' = [got EXCEPT ![e] = got[e] \cup {t}]
  BY DEF OnPacket, OnNoise
<1>pc. \/ UNCHANGED <<pc, cause>>
       \/ pc' = [pc EXCEPT ![e] = "panic"] /\ cause' = cause
       \/ /\ pc' = [pc EXCEPT ![e] = "ended"]
          /\ \E t \in LineTypes :
                /\ cause' = [cause EXCEPT ![e] = t]
                /\ \/ t = "packet and text"
                   \/ e = "runner" /\ t = "shutdown" /\ "shutdown" \notin local["runner"]
  <2>1. CASE OnNoise(e)
    BY <2>1 DEF OnNoise, Returns, GoesTo, runVars, LineTypes
  <2>2. ASSUME NEW t \in Senders, OnPacket(e, t) PROVE <1>pc!1 \/ <1>pc!3
    <3>1. CASE t \in Handlers(e)
      BY <2>2, <3>1 DEF OnPacket, runVars
    <3>2. CASE t \notin Handlers(e)
      <4>1. e = "runner" /\ t = "shutdown" /\ "shutdown" \notin local["runner"]
        BY <2>2, <3>2, PacketHasHandler DEF OnPacket
      <4> QED
        BY <2>2, <3>2, <4>1 DEF OnPacket, Returns, LineTypes, Senders
    <3> QED
      BY <3>1, <3>2
  <2> QED
    BY <2>1, <2>2
<1>1. TypeOK'
  <2>1. pc' \in [Ends -> {"new", "welcome", "copy", "parse", "hello", "ended", "panic"}]
        /\ cause' \in [Ends -> LineTypes \cup {"none", "eof"}]
    BY <1>typ, <1>pc DEF TypeOK
  <2>2. got' \in [Ends -> SUBSET LineTypes]
    <3>1. got \in [Ends -> SUBSET LineTypes] /\ Senders \subseteq LineTypes
      BY <1>typ DEF TypeOK, LineTypes
    <3> QED
      BY <1>got, <3>1
  <2> QED
    BY <1>typ, <1>same, <1>line, <2>1, <2>2, Zenon DEF TypeOK
<1>2. CapInv'
  BY <1>typ, <1>same, <1>pc DEF CommInv, CapInv, TypeOK, Ends
<1>3. LineInv'
  BY <1>same, <1>line, LinesStayOK DEF CommInv
<1>4. SenderInv'
  BY <1>same DEF CommInv, SenderInv, Entitled
<1>5. OnlyHandledPackets'
  <2>1. ASSUME NEW f \in Ends
        PROVE  \/ cause'[f] = cause[f]
               \/ cause'[f] = "packet and text"
               \/ f = "runner" /\ cause'[f] = "shutdown" /\ "shutdown" \notin local["runner"]
    <3>1. cause \in [Ends -> LineTypes \cup {"none", "eof"}]
      BY <1>typ DEF TypeOK
    <3> QED
      BY <1>pc, <3>1
  <2> QED
    BY <1>same, <2>1 DEF CommInv, OnlyHandledPackets
<1> QED
  BY <1>1, <1>2, <1>3, <1>4, <1>5 DEF CommInv

\* Send reads the writer, having asked for the capability, and writes.
LEMMA SendersCommInv ==
    ASSUME CommInv, NEW g \in Senders, SendReads(g) \/ SendWrites(g) PROVE CommInv'
<1> DEFINE e == EndOf(g)
           q == Packet(g, {})
<1>typ. TypeOK /\ e \in Ends
  BY Peers DEF CommInv
<1>same. UNCHANGED <<local, remote, pc, cause, writer, got, noise>>
  BY DEF SendReads, SendWrites, runVars
<1>q. q \in Lines /\ <<q>> \in Seq(Lines) /\ LinesOf(<<q>>) = {q} /\ q.type = g
  <2>1. q \in Lines /\ q.type = g
    BY DEF Packet, Lines, LineTypes
  <2> QED
    BY <2>1, LinesOfOne
<1>ent. Entitled(g)
  <2>1. CASE SendReads(g)
    <3>1. ASSUME g # "shutdown" PROVE g \in local[e] /\ g \in remote[e]
      BY <2>1, <3>1 DEF SendReads, Gate, HasCapability
    <3>2. remote[e] \subseteq local[Peer(e)]
      BY <1>typ DEF CommInv, CapInv
    <3> QED
      BY <1>typ, <3>1, <3>2, Peers DEF Entitled, Ends
  <2>2. CASE SendWrites(g)
    BY <2>2 DEF SendWrites, CommInv, SenderInv
  <2> QED
    BY <2>1, <2>2
<1>ok. LineOK(Peer(e), q)
  BY <1>typ, <1>q, <1>ent, Peers DEF LineOK, Senders
<1>sent. \E l \in {"buffer", "stream", "done"} : sender' = [sender EXCEPT ![g] = l]
  BY <1>typ DEF SendReads, SendWrites, TypeOK
<1>w. \/ UNCHANGED <<input, old>>
      \/ Deliver(e, <<q>>) /\ old' = old
      \/ old' = [old EXCEPT ![e] = old[e] \o <<q>>] /\ input' = input
  BY DEF SendReads, SendWrites
<1> HIDE DEF e, q
<1>in. /\ input' \in [Ends -> Seq(Lines)]
       /\ \A f \in Ends : \A p \in LinesOf(input'[f]) :
             p \in LinesOf(input[f]) \/ LineOK(f, p)
  <2>1. CASE input' = input
    BY <1>typ, <2>1 DEF TypeOK
  <2>2. CASE Deliver(e, <<q>>)
    BY <1>typ, <1>q, <1>ok, <2>2, Delivered
  <2> QED
    BY <1>w, <2>1, <2>2
<1>old. /\ old' \in [Ends -> Seq(Lines)]
        /\ \A f \in Ends : \A p \in LinesOf(old'[f]) :
              p \in LinesOf(old[f]) \/ (p.type \in Senders /\ LineOK(Peer(f), p))
  <2>1. CASE old' = old
    BY <1>typ, <2>1 DEF TypeOK
  <2>2. CASE old' = [old EXCEPT ![e] = old[e] \o <<q>>]
    <3>1. old \in [Ends -> Seq(Lines)]
      BY <1>typ DEF TypeOK
    <3>2. /\ old[e] \o <<q>> \in Seq(Lines)
          /\ LinesOf(old[e] \o <<q>>) \subseteq LinesOf(old[e]) \cup {q}
      BY <1>typ, <1>q, <3>1, LinesOfConcat
    <3> QED
      BY <1>q, <1>ok, <2>2, <3>1, <3>2
  <2> QED
    BY <1>w, <2>1, <2>2
<1>1. TypeOK'
  <2>1. sender' \in [Senders -> {"idle", "buffer", "stream", "done"}]
    BY <1>typ, <1>sent DEF TypeOK
  <2> QED
    BY <1>typ, <1>same, <1>in, <1>old, <2>1, Zenon DEF TypeOK
<1>2. CapInv'
  BY <1>same DEF CommInv, CapInv
<1>3. LineInv'
  BY <1>same, <1>in, <1>old, LineStaysOK, LinesStayOK, Peers DEF CommInv
<1>4. SenderInv'
  BY <1>typ, <1>same, <1>ent, <1>sent DEF CommInv, SenderInv, Entitled, TypeOK
<1>5. OnlyHandledPackets'
  BY <1>same DEF CommInv, OnlyHandledPackets
<1> QED
  BY <1>1, <1>2, <1>3, <1>4, <1>5 DEF CommInv

\* There may be one more line of noise below the bound.
LEMMA OneMoreLine == \A n \in 0 .. MaxNoise : n < MaxNoise => n + 1 \in 0 .. MaxNoise
BY NoiseAssumption

\* Noise on the worker's input says nothing that could be untrue.
LEMMA NoiseCommInv == ASSUME CommInv, Noise PROVE CommInv'
<1>typ. TypeOK /\ "runner" \in Ends
  BY DEF CommInv, Ends
<1>same. UNCHANGED <<local, remote, pc, cause, writer, old, got, sender>>
  BY DEF Noise, runVars
<1>t. PICK t \in {"text", "packet and text", "tilde"} : Deliver("runner", <<Packet(t, {})>>)
  BY DEF Noise
<1>q. /\ Packet(t, {}) \in Lines /\ <<Packet(t, {})>> \in Seq(Lines)
      /\ LinesOf(<<Packet(t, {})>>) = {Packet(t, {})}
  <2>1. Packet(t, {}) \in Lines
    BY DEF Packet, Lines, LineTypes
  <2> QED
    BY <2>1, LinesOfOne
<1>ok. LineOK("worker", Packet(t, {}))
  BY DEF LineOK, Packet, Senders
<1>in. /\ input' \in [Ends -> Seq(Lines)]
       /\ \A f \in Ends : \A p \in LinesOf(input'[f]) :
             p \in LinesOf(input[f]) \/ LineOK(f, p)
  <2>1. /\ input' \in [Ends -> Seq(Lines)]
        /\ \A f \in Ends : \A p \in LinesOf(input'[f]) :
              \/ p \in LinesOf(input[f])
              \/ f = Peer("runner") /\ p \in LinesOf(<<Packet(t, {})>>)
    BY <1>typ, <1>t, <1>q, Delivered, Zenon
  <2>2. Peer("runner") = "worker"
    BY Peers
  <2> QED
    BY <1>q, <1>ok, <2>1, <2>2, Zenon
<1>1. TypeOK'
  <2>1. noise' \in 0 .. MaxNoise
    <3>1. noise < MaxNoise /\ noise' = noise + 1
      BY DEF Noise
    <3>2. noise \in 0 .. MaxNoise
      BY <1>typ DEF TypeOK
    <3> QED
      BY <3>1, <3>2, OneMoreLine, Zenon
  <2> QED
    BY <1>typ, <1>same, <1>in, <2>1, Zenon DEF TypeOK
<1>2. CapInv'
  BY <1>same DEF CommInv, CapInv
<1>3. LineInv'
  BY <1>same, <1>in, LineStaysOK, LinesStayOK DEF CommInv
<1>4. SenderInv' /\ OnlyHandledPackets'
  BY <1>same DEF CommInv, SenderInv, OnlyHandledPackets, Entitled
<1> QED
  BY <1>1, <1>2, <1>3, <1>4 DEF CommInv

\* Every step preserves CommInv.
LEMMA NextCommInv == CommInv /\ [Next]_vars => CommInv'
<1> SUFFICES ASSUME CommInv, [Next]_vars PROVE CommInv'
  OBVIOUS
<1>1. ASSUME NEW e \in Ends, Run(e) \/ OnEOF(e) PROVE CommInv'
  BY <1>1, TurnsCommInv, WritesCommInv, MeetsCommInv, OthersCommInv DEF Run
<1>2. ASSUME NEW g \in Senders, SendReads(g) \/ SendWrites(g) PROVE CommInv'
  BY <1>2, SendersCommInv
<1>3. CASE Noise
  BY <1>3, NoiseCommInv
<1>4. CASE Stopped \/ UNCHANGED vars
  <2>1. UNCHANGED <<local, remote, pc, cause, writer, old, input, got, sender, noise>>
    BY <1>4 DEF Stopped, vars, runVars
  <2>2. TypeOK'
    BY <2>1, Zenon DEF CommInv, TypeOK
  <2>3. CapInv' /\ OnlyHandledPackets' /\ SenderInv'
    BY <2>1 DEF CommInv, CapInv, OnlyHandledPackets, SenderInv, Entitled
  <2>4. LineInv'
    BY <2>1, LinesStayOK DEF CommInv
  <2> QED
    BY <2>2, <2>3, <2>4 DEF CommInv
<1> QED
  BY <1>1, <1>2, <1>3, <1>4 DEF Next

-----------------------------------------------------------------------------
\* CommInv holds in every reachable state.
THEOREM Invariance == Spec => []CommInv
BY InitCommInv, NextCommInv, PTL DEF Spec

\* HasCapability is true only of what both ends have, and of nothing at the
\* runner that the worker does not know of.
THEOREM CapabilitiesAgree == Spec => []CapabilitiesShared
<1>1. CommInv => CapabilitiesShared
  <2> SUFFICES ASSUME CommInv, NEW c \in Caps
               PROVE  /\ \A e \in Ends : HasCapability(e, c) => \A f \in Ends : c \in local[f]
                      /\ HasCapability("runner", c) => HasCapability("worker", c)
    BY DEF CapabilitiesShared
  <2>1. remote["worker"] \subseteq local["runner"] /\ remote["runner"] \subseteq local["worker"]
    BY Peers DEF CommInv, CapInv, Ends
  <2> QED
    BY <2>1 DEF CommInv, CapInv, HasCapability, Ends
<1> QED
  BY <1>1, Invariance, PTL

\* No end is stopped by a packet that the other was not entitled to send.
THEOREM PacketsHandled == Spec => []OnlyHandledPackets
<1>1. CommInv => OnlyHandledPackets
  BY DEF CommInv
<1> QED
  BY <1>1, Invariance, PTL

-----------------------------------------------------------------------------
(* No packet is lost. *)

(***************************************************************************)
(* What a step may do to lines and to what was handled: a line leaves the  *)
(* input of an end only to be handled there, to end its Run or because it  *)
(* is no sender's packet; one leaves the old buffer only for the stream;   *)
(* what was handled stays handled and an end that stopped stays stopped.   *)
(***************************************************************************)
NothingDropped ==
    /\ \A f \in Ends : got[f] \subseteq got'[f] /\ (Over(f) => Over(f)')
    /\ \A f \in Ends : \A p \in LinesOf(input[f]) :
          \/ p \in LinesOf(input'[f])
          \/ p.type \notin Senders
          \/ p.type \in got'[f]
          \/ Over(f)'
    /\ \A f \in Ends : \A p \in LinesOf(old[f]) :
          p \in LinesOf(old'[f]) \/ p \in LinesOf(input'[Peer(f)])

\* The parts of a concatenation are in it.
LEMMA ConcatKeeps ==
    ASSUME NEW s \in Seq(Lines), NEW t \in Seq(Lines)
    PROVE  LinesOf(s) \subseteq LinesOf(s \o t) /\ LinesOf(t) \subseteq LinesOf(s \o t)
<1>1. /\ \A i \in DOMAIN s : i \in DOMAIN (s \o t) /\ (s \o t)[i] = s[i]
      /\ \A i \in DOMAIN t : Len(s) + i \in DOMAIN (s \o t) /\ (s \o t)[Len(s) + i] = t[i]
  OBVIOUS
<1> QED
  BY <1>1 DEF LinesOf

\* A delivery adds its lines to the ones on their way.
LEMMA DeliverKeeps ==
    ASSUME TypeOK, NEW e \in Ends, NEW s \in Seq(Lines), Deliver(e, s)
    PROVE  /\ \A f \in Ends : LinesOf(input[f]) \subseteq LinesOf(input'[f])
           /\ LinesOf(s) \subseteq LinesOf(input'[Peer(e)])
<1>1. /\ input \in [Ends -> Seq(Lines)] /\ Peer(e) \in Ends
      /\ input' = [input EXCEPT ![Peer(e)] = input[Peer(e)] \o s]
  BY Peers DEF TypeOK, Deliver
<1>2. /\ LinesOf(input[Peer(e)]) \subseteq LinesOf(input[Peer(e)] \o s)
      /\ LinesOf(s) \subseteq LinesOf(input[Peer(e)] \o s)
  BY <1>1, ConcatKeeps
<1> QED
  BY <1>1, <1>2

\* Reading takes the first line and no other.
LEMMA ReadKeeps ==
    ASSUME TypeOK, NEW e \in Ends, input[e] # << >>, ReadLine(e)
    PROVE  \A f \in Ends : \A p \in LinesOf(input[f]) :
              p \in LinesOf(input'[f]) \/ (f = e /\ p = Head(input[e]))
<1>1. /\ input \in [Ends -> Seq(Lines)]
      /\ input' = [input EXCEPT ![e] = Tail(input[e])]
  BY DEF TypeOK, ReadLine
<1>2. ASSUME NEW s \in Seq(Lines), s # << >>, NEW p \in LinesOf(s)
      PROVE  p \in LinesOf(Tail(s)) \/ p = Head(s)
  <2>1. PICK i \in DOMAIN s : p = s[i]
    BY <1>2 DEF LinesOf
  <2>2. i = 1 \/ (i - 1 \in DOMAIN Tail(s) /\ Tail(s)[i - 1] = s[i])
    BY <1>2
  <2> QED
    BY <1>2, <2>1, <2>2 DEF LinesOf
<1> QED
  BY <1>1, <1>2

\* Steps of Run and the end of the stream drop nothing.
LEMMA RunDropsNothing ==
    ASSUME TypeOK, NEW e \in Ends, Run(e) \/ OnEOF(e) PROVE NothingDropped
<1>typ. /\ pc \in [Ends -> {"new", "welcome", "copy", "parse", "hello", "ended", "panic"}]
        /\ got \in [Ends -> SUBSET LineTypes] /\ old \in [Ends -> Seq(Lines)]
  BY DEF TypeOK
<1>over. \A f \in Ends : Over(f) => Over(f)'
  <2>1. \/ UNCHANGED pc
        \/ /\ ~Over(e)
           /\ \E l \in {"copy", "welcome", "parse", "hello", "ended", "panic"} :
                 pc' = [pc EXCEPT ![e] = l]
    BY DEF Run, OnEOF, StartRun, SendWelcome, CopyOldWriter, OnHello, OnWelcome, SendHello,
       OnPacket, OnNoise, Reading, GoesTo, Returns, runVars, Over
  <2> QED
    BY <1>typ, <2>1 DEF Over
<1>1. CASE StartRun(e) \/ OnEOF(e)
  BY <1>1, <1>over DEF StartRun, OnEOF, NothingDropped
<1>2. CASE SendWelcome(e) \/ SendHello(e)
  <2>1. PICK t \in {"welcome", "hello"} : Deliver(e, <<Packet(t, local[e])>>)
    BY <1>2 DEF SendWelcome, SendHello
  <2>2. <<Packet(t, local[e])>> \in Seq(Lines)
    BY LinesOfOne DEF Packet, Lines, LineTypes, TypeOK
  <2>3. UNCHANGED <<old, got>>
    BY <1>2 DEF SendWelcome, SendHello
  <2> QED
    BY <1>over, <2>1, <2>2, <2>3, DeliverKeeps DEF NothingDropped
<1>3. CASE CopyOldWriter(e)
  <2>1. Deliver(e, old[e]) /\ old' = [old EXCEPT ![e] = << >>] /\ got' = got
    BY <1>3 DEF CopyOldWriter
  <2>2. /\ \A f \in Ends : LinesOf(input[f]) \subseteq LinesOf(input'[f])
        /\ LinesOf(old[e]) \subseteq LinesOf(input'[Peer(e)])
    BY <1>typ, <2>1, DeliverKeeps
  <2>3. \A f \in Ends : f # e => old'[f] = old[f]
    BY <1>typ, <2>1
  <2> QED
    BY <1>over, <2>1, <2>2, <2>3 DEF NothingDropped
<1>4. ASSUME input[e] # << >>, ReadLine(e), UNCHANGED old,
             \A f \in Ends : got[f] \subseteq got'[f],
             \/ Head(input[e]).type \notin Senders
             \/ Head(input[e]).type \in got'[e]
             \/ Over(e)'
      PROVE  NothingDropped
  BY <1>4, <1>over, ReadKeeps DEF NothingDropped
<1>5. CASE OnHello(e) \/ OnWelcome(e)
  <2>1. /\ input[e] # << >> /\ ReadLine(e) /\ UNCHANGED old
        /\ got' = [got EXCEPT ![e] = got[e] \cup {Head(input[e]).type}]
    BY <1>5 DEF OnHello, OnWelcome, Reading, Meets
  <2> QED
    BY <1>typ, <1>4, <2>1
<1>6. ASSUME NEW t \in Senders, OnPacket(e, t) PROVE NothingDropped
  <2>1. input[e] # << >> /\ ReadLine(e) /\ UNCHANGED old /\ Head(input[e]).type = t
    BY <1>6 DEF OnPacket, Reading
  <2>2. \/ got' = [got EXCEPT ![e] = got[e] \cup {t}]
        \/ got' = got /\ pc' = [pc EXCEPT ![e] = "ended"]
    BY <1>6 DEF OnPacket, Returns
  <2> QED
    BY <1>typ, <1>4, <2>1, <2>2 DEF Over
<1>7. CASE OnNoise(e)
  <2>1. input[e] # << >> /\ ReadLine(e) /\ UNCHANGED <<old, got>>
        /\ Head(input[e]).type \in {"text", "packet and text", "tilde"}
    BY <1>7 DEF OnNoise, Reading
  <2> QED
    BY <1>4, <2>1 DEF Senders
<1> QED
  BY <1>1, <1>2, <1>3, <1>5, <1>6, <1>7 DEF Run

\* Neither does any other step.
LEMMA NextDropsNothing == TypeOK /\ [Next]_vars => NothingDropped
<1> SUFFICES ASSUME TypeOK, [Next]_vars PROVE NothingDropped
  OBVIOUS
<1>typ. old \in [Ends -> Seq(Lines)]
  BY DEF TypeOK
<1>0. ASSUME UNCHANGED <<pc, got>>, \A f \in Ends : LinesOf(input[f]) \subseteq LinesOf(input'[f]),
             \A f \in Ends : LinesOf(old[f]) \subseteq LinesOf(old'[f])
      PROVE  NothingDropped
  BY <1>0 DEF NothingDropped, Over
<1>1. ASSUME NEW e \in Ends, Run(e) \/ OnEOF(e) PROVE NothingDropped
  BY <1>1, RunDropsNothing
<1>2. ASSUME NEW g \in Senders, SendReads(g) PROVE NothingDropped
  BY <1>0, <1>2 DEF SendReads, runVars
<1>3. ASSUME NEW g \in Senders, SendWrites(g) PROVE NothingDropped
  <2> DEFINE q == <<Packet(g, {})>>
  <2>1. UNCHANGED <<pc, got>> /\ EndOf(g) \in Ends
    BY <1>3, Peers DEF SendWrites, runVars
  <2>2. q \in Seq(Lines)
    BY LinesOfOne DEF Packet, Lines, LineTypes
  <2>3. \/ old' = [old EXCEPT ![EndOf(g)] = old[EndOf(g)] \o q] /\ input' = input
        \/ Deliver(EndOf(g), q) /\ old' = old
    BY <1>3 DEF SendWrites
  <2> HIDE DEF q
  <2>4. CASE Deliver(EndOf(g), q) /\ old' = old
    BY <1>0, <2>1, <2>2, <2>4, DeliverKeeps
  <2>5. CASE old' = [old EXCEPT ![EndOf(g)] = old[EndOf(g)] \o q] /\ input' = input
    <3>1. LinesOf(old[EndOf(g)]) \subseteq LinesOf(old[EndOf(g)] \o q)
      BY <1>typ, <2>1, <2>2, ConcatKeeps
    <3> QED
      BY <1>0, <1>typ, <2>1, <2>5, <3>1
  <2> QED
    BY <2>3, <2>4, <2>5
<1>4. CASE Noise
  <2>1. PICK t \in {"text", "packet and text", "tilde"} : Deliver("runner", <<Packet(t, {})>>)
    BY <1>4 DEF Noise
  <2>2. <<Packet(t, {})>> \in Seq(Lines) /\ "runner" \in Ends
    BY LinesOfOne DEF Packet, Lines, LineTypes, Ends
  <2> QED
    BY <1>0, <1>4, <2>1, <2>2, DeliverKeeps DEF Noise, runVars
<1>5. CASE Stopped \/ UNCHANGED vars
  BY <1>0, <1>5 DEF Stopped, vars, runVars
<1> QED
  BY <1>1, <1>2, <1>3, <1>4, <1>5 DEF Next

\* No step of either end, of a Send or of the stream drops a packet.
THEOREM DropsNothing == Spec => [][NothingDropped]_vars
<1>1. CommInv /\ [Next]_vars => [NothingDropped]_vars
  BY NextDropsNothing DEF CommInv
<1> QED
  BY <1>1, Invariance, PTL DEF Spec

(***************************************************************************)
(* An end knows a capability of the other only once its Run has replaced   *)
(* the writer, so only the shutdown request, which asks for none, is ever  *)
(* written to the buffer.                                                  *)
(***************************************************************************)
StreamInv ==
    \A e \in Ends : /\ pc[e] = "new" <=> writer[e] = "buffer"
                    /\ pc[e] = "new" => remote[e] = {}

BufferInv ==
    /\ \A g \in Senders : sender[g] = "buffer" => g = "shutdown"
    /\ \A e \in Ends : \A p \in LinesOf(old[e]) : p.type = "shutdown"

OnItsWay(g) == \E p \in LinesOf(input[Peer(EndOf(g))]) : p.type = g
LeftBehind(g) == \E p \in LinesOf(old[EndOf(g)]) : p.type = g

\* Where the packet of a Send that has returned can be.
Accounted(g) ==
    \/ g \in got[Peer(EndOf(g))] \/ Over(Peer(EndOf(g)))
    \/ OnItsWay(g)
    \/ g = "shutdown" /\ LeftBehind(g)

(***************************************************************************)
(* A packet that Send has written has been handled or is on its way, while *)
(* the other end reads. Only a shutdown request may be in the buffer; the  *)
(* packets that ask for a capability never are, whatever Send and Run do   *)
(* to c.writer without a mutex.                                            *)
(***************************************************************************)
NoPacketLost == \A g \in Senders : sender[g] = "done" => Accounted(g)

\* A step that drops nothing keeps a packet accounted for.
LEMMA AccountedStays ==
    ASSUME NEW g \in Senders, Accounted(g), NothingDropped PROVE Accounted(g)'
<1>1. EndOf(g) \in Ends /\ Peer(EndOf(g)) \in Ends
  BY Peers
<1>2. CASE g \in got[Peer(EndOf(g))] \/ Over(Peer(EndOf(g)))
  BY <1>1, <1>2 DEF Accounted, NothingDropped
<1>3. CASE OnItsWay(g)
  <2>1. PICK p \in LinesOf(input[Peer(EndOf(g))]) : p.type = g
    BY <1>3 DEF OnItsWay
  <2> QED
    BY <1>1, <2>1 DEF NothingDropped, Accounted, OnItsWay
<1>4. CASE g = "shutdown" /\ LeftBehind(g)
  <2>1. PICK p \in LinesOf(old[EndOf(g)]) : p.type = g
    BY <1>4 DEF LeftBehind
  <2> QED
    BY <1>1, <1>4, <2>1 DEF NothingDropped, Accounted, OnItsWay, LeftBehind
<1> QED
  BY <1>2, <1>3, <1>4 DEF Accounted

\* Every step preserves StreamInv.
LEMMA NextStreamInv == TypeOK /\ StreamInv /\ [Next]_vars => StreamInv'
<1> SUFFICES ASSUME TypeOK, StreamInv, [Next]_vars PROVE StreamInv'
  OBVIOUS
<1>typ. /\ pc \in [Ends -> {"new", "welcome", "copy", "parse", "hello", "ended", "panic"}]
        /\ writer \in [Ends -> {"buffer", "stream"}]
        /\ remote \in [Ends -> SUBSET Caps]
  BY DEF TypeOK
<1>same. ASSUME UNCHANGED <<pc, writer, remote>> PROVE StreamInv'
  BY <1>same DEF StreamInv
<1>1. ASSUME NEW e \in Ends, Run(e) \/ OnEOF(e) PROVE StreamInv'
  <2>1. CASE StartRun(e)
    <3>1. PICK l \in {"copy", "welcome"} : pc' = [pc EXCEPT ![e] = l]
      BY <2>1 DEF StartRun, GoesTo
    <3>2. writer' = [writer EXCEPT ![e] = "stream"] /\ UNCHANGED remote
      BY <2>1 DEF StartRun
    <3> QED
      BY <1>typ, <3>1, <3>2 DEF StreamInv
  <2>2. CASE ~StartRun(e)
    <3>1. /\ pc[e] # "new" /\ writer' = writer
          /\ \/ pc' = pc
             \/ \E l \in {"copy", "parse", "hello", "ended", "panic"} : pc' = [pc EXCEPT ![e] = l]
      BY <1>1, <2>2 DEF Run, OnEOF, SendWelcome, CopyOldWriter, OnHello, OnWelcome,
         SendHello, OnPacket, OnNoise, Reading, GoesTo, Returns, runVars
    <3>2. \A f \in Ends : f # e => remote'[f] = remote[f]
      BY <1>1, <1>typ, <2>2 DEF Run, OnEOF, SendWelcome, CopyOldWriter, OnHello, OnWelcome,
         SendHello, OnPacket, OnNoise, Meets
    <3> QED
      BY <1>typ, <3>1, <3>2 DEF StreamInv
  <2> QED
    BY <2>1, <2>2
<1>2. ASSUME NEW g \in Senders, SendReads(g) \/ SendWrites(g) PROVE StreamInv'
  BY <1>2, <1>same DEF SendReads, SendWrites, runVars
<1>3. CASE Noise \/ Stopped \/ UNCHANGED vars
  BY <1>3, <1>same DEF Noise, Stopped, vars, runVars
<1> QED
  BY <1>1, <1>2, <1>3 DEF Next

\* Every step preserves BufferInv and NoPacketLost.
LEMMA NextNoPacketLost ==
    TypeOK /\ StreamInv /\ BufferInv /\ NoPacketLost /\ [Next]_vars
        => BufferInv' /\ NoPacketLost'
<1> SUFFICES ASSUME TypeOK, StreamInv, BufferInv, NoPacketLost, [Next]_vars
             PROVE  BufferInv' /\ NoPacketLost'
  OBVIOUS
<1>typ. /\ sender \in [Senders -> {"idle", "buffer", "stream", "done"}]
        /\ old \in [Ends -> Seq(Lines)]
  BY DEF TypeOK
<1>e. LinesOf(<< >>) = {}
  BY DEF LinesOf
<1>kept. \A g \in Senders : Accounted(g) => Accounted(g)'
  BY NextDropsNothing, AccountedStays
<1>same. ASSUME UNCHANGED sender, \A e \in Ends : LinesOf(old'[e]) \subseteq LinesOf(old[e])
         PROVE  BufferInv' /\ NoPacketLost'
  BY <1>same, <1>kept DEF BufferInv, NoPacketLost
<1>1. ASSUME NEW e \in Ends, Run(e) \/ OnEOF(e) PROVE BufferInv' /\ NoPacketLost'
  <2>1. UNCHANGED sender /\ (UNCHANGED old \/ old' = [old EXCEPT ![e] = << >>])
    BY <1>1 DEF Run, OnEOF, StartRun, SendWelcome, CopyOldWriter, OnHello, OnWelcome,
       SendHello, OnPacket, OnNoise
  <2> QED
    BY <1>same, <1>typ, <1>e, <2>1
<1>2. ASSUME NEW g \in Senders, SendReads(g) PROVE BufferInv' /\ NoPacketLost'
  <2>1. /\ sender' = [sender EXCEPT ![g] = writer[EndOf(g)]] /\ UNCHANGED old
        /\ writer[EndOf(g)] \in {"buffer", "stream"} /\ EndOf(g) \in Ends
    BY <1>2, Peers DEF SendReads, TypeOK
  <2>2. writer[EndOf(g)] = "buffer" => g = "shutdown"
    BY <1>2, <2>1 DEF SendReads, Gate, HasCapability, StreamInv
  <2>3. BufferInv'
    BY <1>typ, <2>1, <2>2 DEF BufferInv
  <2>4. NoPacketLost'
    BY <1>typ, <1>kept, <2>1 DEF NoPacketLost
  <2> QED
    BY <2>3, <2>4
<1>3. ASSUME NEW g \in Senders, SendWrites(g) PROVE BufferInv' /\ NoPacketLost'
  <2> DEFINE e == EndOf(g)
             q == Packet(g, {})
  <2>1. sender' = [sender EXCEPT ![g] = "done"] /\ e \in Ends
    BY <1>3, Peers DEF SendWrites
  <2>2. <<q>> \in Seq(Lines) /\ LinesOf(<<q>>) = {q} /\ q.type = g
    <3>1. q \in Lines /\ q.type = g
      BY DEF Packet, Lines, LineTypes
    <3> QED
      BY <3>1, LinesOfOne
  <2>3. \/ sender[g] = "buffer" /\ old' = [old EXCEPT ![e] = old[e] \o <<q>>]
        \/ Deliver(e, <<q>>) /\ UNCHANGED old
    BY <1>3 DEF SendWrites
  <2> HIDE DEF q
  <2>4. Accounted(g)' /\ BufferInv'
    <3>1. CASE Deliver(e, <<q>>) /\ UNCHANGED old
      <4>1. q \in LinesOf(input'[Peer(e)])
        BY <2>1, <2>2, <3>1, DeliverKeeps
      <4>2. BufferInv'
        BY <1>typ, <2>1, <3>1 DEF BufferInv
      <4> QED
        BY <2>2, <4>1, <4>2 DEF Accounted, OnItsWay
    <3>2. CASE sender[g] = "buffer" /\ old' = [old EXCEPT ![e] = old[e] \o <<q>>]
      <4>1. g = "shutdown"
        BY <3>2 DEF BufferInv
      <4>2. /\ LinesOf(old'[e]) \subseteq LinesOf(old[e]) \cup {q} /\ q \in LinesOf(old'[e])
            /\ \A f \in Ends : f # e => old'[f] = old[f]
        <5>1. /\ LinesOf(old[e] \o <<q>>) \subseteq LinesOf(old[e]) \cup {q}
              /\ q \in LinesOf(old[e] \o <<q>>)
          BY <1>typ, <2>1, <2>2, ConcatKeeps, LinesOfConcat
        <5> QED
          BY <1>typ, <2>1, <3>2, <5>1
      <4>3. BufferInv'
        <5>1. \A f \in Ends : \A p \in LinesOf(old'[f]) : p.type = "shutdown"
          BY <2>2, <4>1, <4>2 DEF BufferInv
        <5> QED
          BY <1>typ, <2>1, <5>1 DEF BufferInv
      <4> QED
        BY <2>2, <4>1, <4>2, <4>3 DEF Accounted, LeftBehind
    <3> QED
      BY <2>3, <3>1, <3>2
  <2>5. NoPacketLost'
    BY <1>typ, <1>kept, <2>1, <2>4 DEF NoPacketLost
  <2> QED
    BY <2>4, <2>5
<1>4. CASE Noise \/ Stopped \/ UNCHANGED vars
  BY <1>4, <1>same DEF Noise, Stopped, vars
<1> QED
  BY <1>1, <1>2, <1>3, <1>4 DEF Next

\* No packet is lost between a Send and the other end, and only the shutdown
\* request can be written to a buffer that nobody copies any more.
THEOREM LosesNoPacket == Spec => []NoPacketLost
<1> DEFINE Inv == TypeOK /\ StreamInv /\ BufferInv /\ NoPacketLost
<1>1. Init => StreamInv /\ BufferInv /\ NoPacketLost
  BY DEF Init, StreamInv, BufferInv, NoPacketLost, LinesOf
<1>2. CommInv => TypeOK
  BY DEF CommInv
<1>3. Spec => []Inv
  BY <1>1, <1>2, InitCommInv, NextCommInv, NextStreamInv, NextNoPacketLost, PTL DEF Spec
<1> QED
  BY <1>3, PTL

=============================================================================
