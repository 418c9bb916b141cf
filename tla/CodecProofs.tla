---------------------------- MODULE CodecProofs ----------------------------
(***************************************************************************)
(* Proofs about the two codecs, QrDecode and Framing: what images and what *)
(* byte streams are decoded to, for any number of threads, platforms and   *)
(* calls, of frames, chunk sizes and lengths.                              *)
(***************************************************************************)
EXTENDS QrDecode, Framing, SequenceTheorems, TLAPS

----------------------------------------------------------------------------
(* Images.                                                                 *)

\* No two platforms offer different alternate detectors (qr_stale shows what follows if they do).
OneAlternate == \A a, b \in Platforms : ~("wechat" \in a /\ "aruco" \in b)

Alternate == IF \E a \in Platforms : "wechat" \in a THEN "wechat" ELSE "aruco"

Alternates == {NoKind, Alternate}

Pcs == Sites \cup {"idle", "kind", "kind_lock", "kind_known"}

Orders == {<<"cv2">>, <<"cv2", "other">>}

Decoders ==
  {d \in [pc : Pcs, failed_import : BOOLEAN, image : Images, left : Orders \cup {<<>>}, kind : Alternates \cup {Unresolved},
          detector : BOOLEAN, alt_detector : Alternates, result : {"none", "payload"}, calm : BOOLEAN] :
     d.pc = "factory" => d.left \in Orders}

Probes == [cv2_missing : BOOLEAN, alt_kind : Alternates \cup {Unresolved}, locked : BOOLEAN]

QrTypes ==
  /\ platform \in Platforms
  /\ probes \in Probes
  /\ registry \in [names : Orders, selected : {Automatic, "cv2", "other"}]
  /\ registry.selected = "other" => registry.names = <<"cv2", "other">>
  /\ config \in [pc : {"idle", "cv2_missing", "alt_kind"}, calls : Nat]
  /\ settled \in {"yes", "resetting", "no"}
  /\ decoder \in [Threads -> Decoders]

\* Nothing is under way when a reset goes by; a decode that was begun since is calm.
SettledInv ==
  /\ settled = "yes" => config.pc = "idle"
  /\ settled = "resetting" =>
       /\ config.pc = "alt_kind" /\ ~probes.cv2_missing
       /\ \A t \in Threads : decoder[t].pc = "idle"
  /\ \A t \in Threads : decoder[t].calm => settled = "yes"
  /\ settled = "yes" => \A t \in Threads : decoder[t].pc # "idle" => decoder[t].calm
  /\ \A t \in Threads : decoder[t].failed_import => decoder[t].pc \in Sites

HereKind == IF "cv2" \in platform THEN AltKind ELSE NoKind

\* Then the probes tell what the platform is.
Tell(p) ==
  /\ p.cv2_missing => "cv2" \notin platform
  /\ p.alt_kind \in {Unresolved, HereKind}

ProbesTell ==
  settled = "yes" => Tell(probes) /\ \A t \in Threads : decoder[t].failed_import => "cv2" \notin platform

BeyondFactory == {"decode", "detector", "variants", "kind", "kind_lock", "probe", "kind_known", "alt_detector", "alt_decode"}
BeyondVariants == {"kind", "kind_lock", "probe", "kind_known", "alt_detector", "alt_decode"}

\* What a decode has found out on its way, where k is the kind that is cached.
OnItsWay(d, k) ==
  /\ d.pc # "alt_variants"
  /\ d.pc = "factory" =>
       registry.selected # "other" /\ d.left = (IF registry.selected = Automatic THEN registry.names ELSE <<"cv2">>)
  /\ d.pc \in BeyondFactory => "cv2" \in platform /\ registry.selected # "other"
  /\ d.pc = "variants" => d.image # "plain"
  /\ d.pc \in BeyondVariants => d.image = "blind"
  /\ d.pc = "kind_known" => k # Unresolved
  /\ d.pc \in {"alt_detector", "alt_decode"} => d.kind = AltKind /\ d.kind # NoKind
  /\ d.pc = "alt_decode" => d.alt_detector = d.kind

Complete(d) == d.result = "payload" <=> Decodable(d.image)

DoesWell(d, k) == d.calm => IF d.pc = "idle" THEN Complete(d) ELSE OnItsWay(d, k)

AllDoWell == \A t \in Threads : DoesWell(decoder[t], probes.alt_kind)

QrInv == QrTypes /\ SettledInv /\ ProbesTell /\ AllDoWell

LEMMA Tuples ==
  /\ Tail(<<"cv2">>) = <<>> /\ Tail(<<"cv2", "other">>) = <<"other">>
  /\ <<"cv2">>[1] = "cv2" /\ <<"cv2", "other">>[1] = "cv2" /\ <<"other">>[1] = "other"
  /\ <<"cv2", "other">>[2] = "other"
  /\ <<"cv2">> # <<>> /\ <<"cv2", "other">> # <<>> /\ <<"other">> # <<>> /\ <<"cv2">> # <<"cv2", "other">>
  /\ DOMAIN <<"cv2">> = {1} /\ DOMAIN <<"cv2", "other">> = {1, 2}
  /\ Append(<<"cv2">>, "other") = <<"cv2", "other">>
<1>1. Tail(<<"cv2">>) = <<>> /\ Tail(<<"cv2", "other">>) = <<"other">>
  OBVIOUS
<1>2. <<"cv2">>[1] = "cv2" /\ <<"cv2", "other">>[1] = "cv2" /\ <<"other">>[1] = "other" /\ <<"cv2", "other">>[2] = "other"
  OBVIOUS
<1>3. DOMAIN <<"cv2">> = 1..1 /\ DOMAIN <<"cv2", "other">> = 1..2
  OBVIOUS
<1>4. Len(<<"cv2">>) = 1 /\ Len(<<"cv2", "other">>) = 2 /\ Len(<<>>) = 0 /\ Len(<<"other">>) = 1
  OBVIOUS
<1>5. Append(<<"cv2">>, "other") = <<"cv2", "other">>
  <2> DEFINE s == Append(<<"cv2">>, "other")
  <2>1. <<"cv2">> \in Seq({"cv2", "other"})
    OBVIOUS
  <2>2. s \in Seq({"cv2", "other"}) /\ Len(s) = 2 /\ s[1] = "cv2" /\ s[2] = "other"
    BY <2>1, <1>2, <1>4
  <2>3. s = [i \in 1..2 |-> s[i]] /\ <<"cv2", "other">> = [i \in 1..2 |-> <<"cv2", "other">>[i]]
    BY <2>2
  <2>4. \A i \in 1..2 : s[i] = <<"cv2", "other">>[i]
    BY <2>2, <1>2
  <2> QED
    BY <2>3, <2>4
<1> QED
  BY <1>1, <1>2, <1>3, <1>4, <1>5

\* The platform's alternate is the one there is.
LEMMA KindHere ==
  ASSUME OneAlternate, QrTypes
  PROVE  /\ AltKind \in Alternates /\ HereKind \in Alternates
         /\ AltKind # NoKind => ClassOf(AltKind) = AltKind /\ AltKind \in platform /\ AltKind = Alternate
         /\ AltKind = NoKind <=> platform \cap {"wechat", "aruco"} = {}
         /\ \A k \in Alternates \cup {Unresolved} : ClassOf(k) \in platform => ClassOf(k) = Alternate
  BY DEF OneAlternate, QrTypes, AltKind, HereKind, Alternates, Alternate, ClassOf, NoKind, Unresolved

\* Where the cv2 detector is not chosen or not there, the rest of the backends decide.
LEMMA ResolveDoes ==
  ASSUME OneAlternate, QrTypes, NEW d \in Decoders, d.failed_import = FALSE,
         NEW left \in Orders \cup {<<>>, <<"other">>}, NEW k
  PROVE  /\ Resolve(d, left) \in Decoders
         /\ Resolve(d, left).pc \in {"idle", "factory"}
         /\ Resolve(d, left).calm = d.calm /\ Resolve(d, left).failed_import = FALSE
         /\ (left = (IF registry.selected = Automatic THEN registry.names ELSE <<registry.selected>>)
             \/ ("cv2" \notin platform /\ registry.selected # "other"
                 /\ left = Tail(IF registry.selected = Automatic THEN registry.names ELSE <<"cv2">>)))
              => DoesWell(Resolve(d, left), k)
<1> DEFINE e == Resolve(d, left)
<1>1. CASE left = <<>>
  <2>1. e = Returns(d, "none")
    BY <1>1 DEF Resolve
  <2>2. e = [d EXCEPT !.pc = "idle", !.left = <<>>, !.kind = NoKind, !.result = "none"]
    BY <2>1 DEF Returns
  <2>3. e \in Decoders /\ e.pc = "idle" /\ e.calm = d.calm /\ e.failed_import = FALSE /\ e.image = d.image /\ e.result = "none"
    BY <2>2 DEF Decoders, Pcs, Alternates
  <2>4. ASSUME left = (IF registry.selected = Automatic THEN registry.names ELSE <<registry.selected>>) PROVE FALSE
    BY <2>4, <1>1, Tuples DEF QrTypes, Orders
  <2>5. ASSUME "cv2" \notin platform, registry.selected # "other",
               left = Tail(IF registry.selected = Automatic THEN registry.names ELSE <<"cv2">>)
        PROVE  ~Decodable(d.image)
    BY <2>5, <1>1, Tuples DEF QrTypes, Orders, Decodable, Automatic
  <2> QED
    BY <2>3, <2>4, <2>5 DEF DoesWell, Complete
<1>2. CASE left \in Orders
  <2>1. left # <<>> /\ left[1] = "cv2"
    BY <1>2, Tuples DEF Orders
  <2>2. e = Goes([d EXCEPT !.left = left], "factory")
    BY <2>1 DEF Resolve
  <2>3. e = [d EXCEPT !.left = left, !.pc = "factory"]
    BY <2>2 DEF Goes, Decoders
  <2>4. e \in Decoders /\ e.pc = "factory" /\ e.calm = d.calm /\ e.failed_import = FALSE /\ e.left = left
    BY <2>3, <1>2 DEF Decoders, Pcs, Sites
  <2>5. ASSUME left = (IF registry.selected = Automatic THEN registry.names ELSE <<registry.selected>>)
        PROVE  OnItsWay(e, k)
    <3>1. registry.selected # "other" /\ left = (IF registry.selected = Automatic THEN registry.names ELSE <<"cv2">>)
      BY <2>5, <2>1, <1>2, Tuples DEF QrTypes, Automatic
    <3> HIDE DEF e
    <3> QED
      BY <3>1, <2>4 DEF OnItsWay, BeyondFactory, BeyondVariants
  <2>6. ASSUME left = Tail(IF registry.selected = Automatic THEN registry.names ELSE <<"cv2">>)
        PROVE  FALSE
    BY <2>6, <1>2, <2>1, Tuples DEF QrTypes, Orders, Automatic
  <2> QED
    BY <2>4, <2>5, <2>6 DEF DoesWell
<1>3. CASE left = <<"other">>
  <2>1. left # <<>> /\ left[1] = "other"
    BY <1>3, Tuples
  <2>2. e = Returns(d, IF d.image = "plain" THEN "payload" ELSE "none")
    BY <2>1 DEF Resolve
  <2>3. e = [d EXCEPT !.pc = "idle", !.left = <<>>, !.kind = NoKind, !.result = IF d.image = "plain" THEN "payload" ELSE "none"]
    BY <2>2 DEF Returns
  <2>4. e \in Decoders /\ e.pc = "idle" /\ e.calm = d.calm /\ e.failed_import = FALSE /\ e.image = d.image
        /\ (e.result = "payload" <=> d.image = "plain")
    BY <2>3 DEF Decoders, Pcs, Alternates
  <2>5. ASSUME left = (IF registry.selected = Automatic THEN registry.names ELSE <<registry.selected>>)
        PROVE  Decodable(d.image) <=> d.image = "plain"
    <3>1. registry.selected = "other" /\ registry.names = <<"cv2", "other">>
      BY <2>5, <1>3, Tuples DEF QrTypes, Orders, Automatic
    <3> QED
      BY <3>1, Tuples DEF Decodable
  <2>6. ASSUME "cv2" \notin platform, registry.selected # "other",
               left = Tail(IF registry.selected = Automatic THEN registry.names ELSE <<"cv2">>)
        PROVE  Decodable(d.image) <=> d.image = "plain"
    <3>1. registry.selected = Automatic /\ registry.names = <<"cv2", "other">>
      BY <2>6, <1>3, Tuples DEF QrTypes, Orders, Automatic
    <3> QED
      BY <3>1, <2>6, Tuples DEF Decodable, Automatic
  <2> QED
    BY <2>4, <2>5, <2>6 DEF DoesWell, Complete
<1> QED
  BY <1>1, <1>2, <1>3

LEMMA ReturnsDoes ==
  ASSUME NEW d \in Decoders, NEW r \in {"none", "payload"}
  PROVE  /\ Returns(d, r) \in Decoders
         /\ Returns(d, r).pc = "idle" /\ Returns(d, r).result = r /\ Returns(d, r).image = d.image
         /\ Returns(d, r).calm = d.calm /\ Returns(d, r).failed_import = d.failed_import
<1>1. Returns(d, r) = [d EXCEPT !.pc = "idle", !.left = <<>>, !.kind = NoKind, !.result = r]
  BY DEF Returns
<1> QED
  BY <1>1 DEF Decoders, Pcs, Alternates

LEMMA GoesDoes ==
  ASSUME NEW d \in Decoders, NEW pc \in Pcs, pc # "factory" \/ d.left \in Orders
  PROVE  /\ Goes(d, pc) \in Decoders /\ Goes(d, pc).pc = pc
         /\ Goes(d, pc).image = d.image /\ Goes(d, pc).left = d.left /\ Goes(d, pc).kind = d.kind
         /\ Goes(d, pc).alt_detector = d.alt_detector
         /\ Goes(d, pc).calm = d.calm /\ Goes(d, pc).failed_import = d.failed_import
  BY DEF Goes, Decoders

\* What the cv2 backend can read.
LEMMA Cv2Reads ==
  ASSUME OneAlternate, QrTypes, "cv2" \in platform, registry.selected # "other", NEW d \in Decoders
  PROVE  Decodable(d.image) <=> d.image \in {"plain", "hard"} \/ (d.image = "blind" /\ AltKind # NoKind)
  BY KindHere DEF Decodable

LEMMA ReadFirstDoes ==
  ASSUME OneAlternate, QrTypes, NEW d \in Decoders, NEW k
  PROVE  /\ ReadFirst(d) \in Decoders
         /\ ReadFirst(d).calm = d.calm /\ ReadFirst(d).failed_import = d.failed_import
         /\ ReadFirst(d).pc \in {"idle", "variants"}
         /\ "cv2" \in platform /\ registry.selected # "other" => DoesWell(ReadFirst(d), k)
<1>1. CASE d.image = "plain"
  BY <1>1, ReturnsDoes, Cv2Reads DEF ReadFirst, DoesWell, Complete
<1>2. CASE d.image # "plain"
  <2>1. ReadFirst(d) = Goes(d, "variants")
    BY <1>2 DEF ReadFirst
  <2>2. "variants" \in Pcs
    BY DEF Pcs, Sites
  <2> QED
    BY <2>1, <2>2, <1>2, GoesDoes DEF DoesWell, OnItsWay, BeyondFactory, BeyondVariants
<1> QED
  BY <1>1, <1>2

LEMMA ReadVariantsDoes ==
  ASSUME OneAlternate, QrTypes, NEW d \in Decoders, NEW k
  PROVE  /\ ReadVariants(d) \in Decoders
         /\ ReadVariants(d).calm = d.calm /\ ReadVariants(d).failed_import = d.failed_import
         /\ ReadVariants(d).pc = "idle"
         /\ "cv2" \in platform /\ registry.selected # "other" /\ d.image \in {"hard", "odd"} => DoesWell(ReadVariants(d), k)
  BY ReturnsDoes, Cv2Reads DEF ReadVariants, DoesWell, Complete

LEMMA NewAltDetectorDoes ==
  ASSUME OneAlternate, QrTypes, NEW d \in Decoders, NEW k
  PROVE  /\ NewAltDetector(d) \in Decoders
         /\ NewAltDetector(d).calm = d.calm /\ NewAltDetector(d).failed_import = d.failed_import
         /\ NewAltDetector(d).pc \in {"idle", "alt_decode"}
         /\ OnItsWay(d, k) /\ d.pc = "alt_detector" => DoesWell(NewAltDetector(d), k)
<1>0. d.kind \in Alternates \cup {Unresolved}
  BY DEF Decoders
<1>1. CASE ClassOf(d.kind) \in platform
  <2> DEFINE c == [d EXCEPT !.alt_detector = ClassOf(d.kind)]
  <2>1. NewAltDetector(d) = Goes(c, "alt_decode")
    BY <1>1 DEF NewAltDetector
  <2>2. ClassOf(d.kind) \in Alternates
    BY <1>0, <1>1, KindHere DEF Alternates
  <2>3. c \in Decoders /\ c.image = d.image /\ c.kind = d.kind /\ c.calm = d.calm /\ c.failed_import = d.failed_import
        /\ c.alt_detector = ClassOf(d.kind)
    BY <2>2 DEF Decoders
  <2>4. "alt_decode" \in Pcs
    BY DEF Pcs, Sites
  <2> HIDE DEF c
  <2>5. ASSUME OnItsWay(d, k), d.pc = "alt_detector"
        PROVE  OnItsWay(Goes(c, "alt_decode"), k)
    <3>1. d.kind = AltKind /\ d.kind # NoKind /\ d.image = "blind" /\ "cv2" \in platform /\ registry.selected # "other"
      BY <2>5 DEF OnItsWay, BeyondFactory, BeyondVariants
    <3>2. ClassOf(d.kind) = d.kind
      BY <3>1, KindHere
    <3> QED
      BY <2>3, <2>4, <3>1, <3>2, GoesDoes DEF OnItsWay, BeyondFactory, BeyondVariants
  <2>6. Goes(c, "alt_decode") \in Decoders /\ Goes(c, "alt_decode").calm = d.calm
        /\ Goes(c, "alt_decode").failed_import = d.failed_import /\ Goes(c, "alt_decode").pc = "alt_decode"
    BY <2>3, <2>4, GoesDoes
  <2> QED
    BY <2>1, <2>5, <2>6 DEF DoesWell
<1>2. CASE ClassOf(d.kind) \notin platform
  <2>1. NewAltDetector(d) = Returns(d, "none")
    BY <1>2 DEF NewAltDetector
  <2>2. ASSUME OnItsWay(d, k), d.pc = "alt_detector" PROVE FALSE
    BY <2>2, <1>2, KindHere DEF OnItsWay
  <2> QED
    BY <2>1, <2>2, ReturnsDoes
<1> QED
  BY <1>1, <1>2

LEMMA AltReadFirstDoes ==
  ASSUME OneAlternate, QrTypes, NEW d \in Decoders, NEW k
  PROVE  /\ AltReadFirst(d) \in Decoders
         /\ AltReadFirst(d).calm = d.calm /\ AltReadFirst(d).failed_import = d.failed_import
         /\ AltReadFirst(d).pc \in {"idle", "alt_variants"}
         /\ OnItsWay(d, k) /\ d.pc = "alt_decode" => DoesWell(AltReadFirst(d), k)
<1>0. "alt_variants" \in Pcs
  BY DEF Pcs, Sites
<1>1. AltReadFirst(d) \in {Returns(d, "none"), Returns(d, "payload"), Goes(d, "alt_variants")}
  BY DEF AltReadFirst
<1>2. /\ AltReadFirst(d) \in Decoders
      /\ AltReadFirst(d).calm = d.calm /\ AltReadFirst(d).failed_import = d.failed_import
      /\ AltReadFirst(d).pc \in {"idle", "alt_variants"}
  BY <1>0, <1>1, ReturnsDoes, GoesDoes
<1>3. ASSUME OnItsWay(d, k), d.pc = "alt_decode"
      PROVE  DoesWell(AltReadFirst(d), k)
  <2>1. d.kind = AltKind /\ d.kind # NoKind /\ d.image = "blind" /\ "cv2" \in platform /\ registry.selected # "other"
        /\ d.alt_detector = d.kind
    BY <1>3 DEF OnItsWay, BeyondFactory, BeyondVariants
  <2>2. AltReadFirst(d) = Returns(d, "payload")
    BY <2>1, KindHere DEF AltReadFirst
  <2> QED
    BY <2>1, <2>2, ReturnsDoes, Cv2Reads DEF DoesWell, Complete
<1> QED
  BY <1>2, <1>3

LEMMA NewDetectorDoes ==
  ASSUME OneAlternate, QrTypes, NEW d \in Decoders, NEW k
  PROVE  /\ NewDetector(d) \in Decoders
         /\ NewDetector(d).calm = d.calm /\ NewDetector(d).failed_import = d.failed_import
         /\ NewDetector(d).pc \in {"idle", "variants"}
         /\ "cv2" \in platform /\ registry.selected # "other" => DoesWell(NewDetector(d), k)
<1> DEFINE c == [d EXCEPT !.detector = TRUE]
<1>1. c \in Decoders /\ c.calm = d.calm /\ c.failed_import = d.failed_import
  BY DEF Decoders
<1>2. NewDetector(d) = ReadFirst(c)
  BY DEF NewDetector
<1> HIDE DEF c
<1> QED
  BY <1>1, <1>2, ReadFirstDoes

\* A call site with the module there.
LEMMA WithDoes ==
  ASSUME OneAlternate, QrTypes, NEW d \in Decoders, d.failed_import = FALSE, d.pc \in Sites, NEW j, NEW k
  PROVE  /\ With(d) \in Decoders
         /\ With(d).calm = d.calm /\ With(d).failed_import = FALSE
         /\ (OnItsWay(d, j) /\ "cv2" \in platform /\ (d.pc = "probe" => k # Unresolved)) => DoesWell(With(d), k)
<1>0. "decode" \in Pcs /\ "detector" \in Pcs /\ "kind" \in Pcs /\ "kind_known" \in Pcs
      /\ d.image \in Images
  BY DEF Pcs, Sites, Decoders
<1>1. CASE d.pc = "factory"
  <2>1. With(d) = Goes(d, "decode")
    BY <1>1 DEF With
  <2>2. Goes(d, "decode") \in Decoders /\ Goes(d, "decode").pc = "decode" /\ Goes(d, "decode").image = d.image
        /\ Goes(d, "decode").calm = d.calm /\ Goes(d, "decode").failed_import = FALSE
    BY <1>0, GoesDoes
  <2> QED
    BY <2>1, <2>2, <1>1 DEF DoesWell, OnItsWay, BeyondFactory, BeyondVariants
<1>2. CASE d.pc = "decode" /\ d.detector
  <2>1. With(d) = ReadFirst(d)
    BY <1>2 DEF With
  <2> QED
    BY <2>1, <1>2, ReadFirstDoes DEF OnItsWay, BeyondFactory
<1>3. CASE d.pc = "decode" /\ ~d.detector
  <2>1. With(d) = Goes(d, "detector")
    BY <1>3 DEF With
  <2>2. Goes(d, "detector") \in Decoders /\ Goes(d, "detector").pc = "detector"
        /\ Goes(d, "detector").calm = d.calm /\ Goes(d, "detector").failed_import = FALSE
    BY <1>0, GoesDoes
  <2> QED
    BY <2>1, <2>2, <1>3 DEF DoesWell, OnItsWay, BeyondFactory, BeyondVariants
<1>4. CASE d.pc = "detector"
  <2>1. With(d) = NewDetector(d)
    BY <1>4 DEF With
  <2> QED
    BY <2>1, <1>4, NewDetectorDoes DEF OnItsWay, BeyondFactory
<1>5. CASE d.pc = "variants" /\ d.image # "blind"
  <2>1. With(d) = ReadVariants(d)
    BY <1>5 DEF With
  <2>2. OnItsWay(d, j) => d.image \in {"hard", "odd"}
    BY <1>0, <1>5 DEF OnItsWay, Images
  <2> QED
    BY <2>1, <2>2, <1>5, ReadVariantsDoes DEF OnItsWay, BeyondFactory
<1>6. CASE d.pc = "variants" /\ d.image = "blind"
  <2>1. With(d) = Goes(d, "kind")
    BY <1>6 DEF With
  <2>2. Goes(d, "kind") \in Decoders /\ Goes(d, "kind").pc = "kind" /\ Goes(d, "kind").image = d.image
        /\ Goes(d, "kind").calm = d.calm /\ Goes(d, "kind").failed_import = FALSE
    BY <1>0, GoesDoes
  <2> QED
    BY <2>1, <2>2, <1>6 DEF DoesWell, OnItsWay, BeyondFactory, BeyondVariants
<1>7. CASE d.pc = "probe"
  <2>1. With(d) = Goes(d, "kind_known")
    BY <1>7 DEF With
  <2>2. Goes(d, "kind_known") \in Decoders /\ Goes(d, "kind_known").pc = "kind_known" /\ Goes(d, "kind_known").image = d.image
        /\ Goes(d, "kind_known").calm = d.calm /\ Goes(d, "kind_known").failed_import = FALSE
    BY <1>0, GoesDoes
  <2> QED
    BY <2>1, <2>2, <1>7 DEF DoesWell, OnItsWay, BeyondFactory, BeyondVariants
<1>8. CASE d.pc = "alt_detector"
  <2>1. With(d) = NewAltDetector(d)
    BY <1>8 DEF With
  <2>2. OnItsWay(d, j) => OnItsWay(d, k)
    BY <1>8 DEF OnItsWay
  <2> QED
    BY <2>1, <2>2, <1>8, NewAltDetectorDoes
<1>9. CASE d.pc = "alt_decode"
  <2>1. With(d) = AltReadFirst(d)
    BY <1>9 DEF With
  <2>2. OnItsWay(d, j) => OnItsWay(d, k)
    BY <1>9 DEF OnItsWay
  <2> QED
    BY <2>1, <2>2, <1>9, AltReadFirstDoes
<1>10. CASE d.pc = "alt_variants"
  <2>1. With(d) = ReadVariants(d)
    BY <1>10 DEF With
  <2> QED
    BY <2>1, <1>10, ReadVariantsDoes DEF OnItsWay
<1> QED
  BY <1>1, <1>2, <1>3, <1>4, <1>5, <1>6, <1>7, <1>8, <1>9, <1>10 DEF Sites

\* A call site without it: only at the factory may it turn out that it is not there.
LEMMA WithoutDoes ==
  ASSUME OneAlternate, QrTypes, NEW d \in Decoders, d.failed_import = FALSE, d.pc \in Sites, NEW j, NEW k
  PROVE  /\ Without(d) \in Decoders
         /\ Without(d).calm = d.calm /\ Without(d).failed_import = FALSE
         /\ OnItsWay(d, j) /\ "cv2" \notin platform => DoesWell(Without(d), k)
<1>0. "kind" \in Pcs /\ "kind_known" \in Pcs /\ d.left \in Orders \cup {<<>>}
  BY DEF Pcs, Decoders
<1>1. CASE d.pc = "factory"
  <2>1. Without(d) = Resolve(d, Tail(d.left))
    BY <1>1 DEF Without
  <2>2. d.left \in Orders
    BY <1>1 DEF Decoders
  <2>3. Tail(d.left) \in Orders \cup {<<>>, <<"other">>}
    BY <2>2, Tuples DEF Orders
  <2>4. /\ Resolve(d, Tail(d.left)) \in Decoders
        /\ Resolve(d, Tail(d.left)).calm = d.calm /\ Resolve(d, Tail(d.left)).failed_import = FALSE
        /\ ("cv2" \notin platform /\ registry.selected # "other"
             /\ Tail(d.left) = Tail(IF registry.selected = Automatic THEN registry.names ELSE <<"cv2">>))
              => DoesWell(Resolve(d, Tail(d.left)), k)
    BY <2>3, ResolveDoes
  <2>5. OnItsWay(d, j) => registry.selected # "other" /\ d.left = (IF registry.selected = Automatic THEN registry.names ELSE <<"cv2">>)
    BY <1>1 DEF OnItsWay
  <2> QED
    BY <2>1, <2>4, <2>5
<1>2. CASE d.pc # "factory"
  <2>1. OnItsWay(d, j) /\ "cv2" \notin platform => FALSE
    BY <1>2 DEF OnItsWay, BeyondFactory, Sites
  <2>2. Without(d) \in {Goes(d, "kind"), Goes(d, "kind_known"), Returns(d, "none")}
    BY <1>2 DEF Without
  <2> QED
    BY <2>1, <2>2, <1>0, GoesDoes, ReturnsDoes
<1> QED
  BY <1>1, <1>2

\* What a decode under way becomes, where only its thread and the probes change.
LEMMA StepKeeps ==
  ASSUME QrInv, NEW t \in Threads, NEW d \in Decoders, decoder[t].pc # "idle", Becomes(t, d), probes' \in Probes,
         d.calm = decoder[t].calm,
         d.failed_import => d.pc \in Sites /\ "cv2" \notin platform,
         settled = "yes" => Tell(probes'),
         probes.alt_kind # Unresolved => probes'.alt_kind # Unresolved,
         DoesWell(d, probes'.alt_kind)
  PROVE  QrInv'
<1>1. /\ UNCHANGED <<platform, registry, config, changes, settled>>
      /\ decoder \in [Threads -> Decoders] /\ decoder' = [decoder EXCEPT ![t] = d]
  BY DEF Becomes, Sets, QrInv, QrTypes
<1>2. decoder'[t] = d /\ \A u \in Threads : u # t => decoder'[u] = decoder[u]
  BY <1>1
<1>3. decoder' \in [Threads -> Decoders]
  BY <1>1
<1>4. QrTypes'
  BY <1>1, <1>3 DEF QrInv, QrTypes, Decoders, Probes, Alternates, Alternate
<1>5. settled # "resetting"
  BY DEF QrInv, SettledInv
<1>6. SettledInv'
  BY <1>1, <1>2, <1>5 DEF QrInv, SettledInv
<1>7. ProbesTell'
  BY <1>1, <1>2, <1>5 DEF QrInv, ProbesTell, Tell, HereKind, AltKind
<1>8. AllDoWell'
  <2> SUFFICES ASSUME NEW u \in Threads PROVE DoesWell(decoder[u], probes.alt_kind)'
    BY DEF AllDoWell
  <2>1. DoesWell(decoder'[u], probes'.alt_kind)
    <3>1. CASE u = t
      BY <3>1, <1>2
    <3>2. CASE u # t
      BY <3>2, <1>2 DEF QrInv, AllDoWell, DoesWell, OnItsWay
    <3> QED
      BY <3>1, <3>2
  <2> QED
    BY <2>1, <1>1 DEF DoesWell, OnItsWay, Complete, Decodable, AltKind
<1> QED
  BY <1>4, <1>6, <1>7, <1>8 DEF QrInv

LEMMA DecodeFrameKeeps ==
  ASSUME OneAlternate, QrInv, NEW t \in Threads, NEW image \in Images, DecodeFrame(t, image)
  PROVE  QrInv'
<1> DEFINE c == [decoder[t] EXCEPT !.image = image, !.calm = settled = "yes"]
           left == IF registry.selected = Automatic THEN registry.names ELSE <<registry.selected>>
           d == Resolve(c, left)
<1>1. QrTypes /\ decoder[t] \in Decoders /\ decoder[t].pc = "idle" /\ decoder[t].failed_import = FALSE
  BY DEF QrInv, QrTypes, SettledInv, DecodeFrame, Sites, Decoders
<1>2. c \in Decoders /\ c.failed_import = FALSE /\ c.calm = (settled = "yes")
  BY <1>1 DEF Decoders
<1>3. left \in Orders \cup {<<>>, <<"other">>}
  BY <1>1 DEF QrTypes, Orders, Automatic
<1>4. /\ decoder' = [decoder EXCEPT ![t] = d] /\ UNCHANGED <<platform, registry, config, changes, probes>>
      /\ settled' = IF settled = "yes" THEN "yes" ELSE "no"
  BY DEF DecodeFrame, Sets
<1> HIDE DEF c, left
<1>5. /\ d \in Decoders /\ d.calm = (settled = "yes") /\ d.failed_import = FALSE /\ d.pc \in {"idle", "factory"}
      /\ DoesWell(d, probes.alt_kind)
  <2>1. left = IF registry.selected = Automatic THEN registry.names ELSE <<registry.selected>>
    BY DEF left
  <2> QED
    BY <1>1, <1>2, <1>3, <2>1, ResolveDoes
<1> HIDE DEF d
<1>6. decoder'[t] = d /\ \A u \in Threads : u # t => decoder'[u] = decoder[u]
  BY <1>1, <1>4 DEF QrTypes
<1>7. QrTypes'
  BY <1>1, <1>4, <1>5 DEF QrTypes, Decoders, Probes, Alternates, Alternate
<1>8. SettledInv'
  BY <1>1, <1>4, <1>5, <1>6 DEF QrInv, SettledInv
<1>9. ProbesTell'
  BY <1>1, <1>4, <1>5, <1>6 DEF QrInv, ProbesTell, Tell, HereKind, AltKind
<1>10. AllDoWell'
  <2> SUFFICES ASSUME NEW u \in Threads PROVE DoesWell(decoder[u], probes.alt_kind)'
    BY DEF AllDoWell
  <2>1. DoesWell(decoder'[u], probes.alt_kind)
    BY <1>5, <1>6 DEF QrInv, AllDoWell
  <2> QED
    BY <2>1, <1>4 DEF DoesWell, OnItsWay, Complete, Decodable, AltKind
<1> QED
  BY <1>7, <1>8, <1>9, <1>10 DEF QrInv

LEMMA RequireCv2Keeps ==
  ASSUME OneAlternate, QrInv, NEW t \in Threads, RequireCv2(t)
  PROVE  QrInv'
<1> DEFINE d == decoder[t]
<1>1. /\ QrTypes /\ d \in Decoders /\ d.pc \in Sites /\ d.failed_import = FALSE /\ d.pc # "idle"
      /\ d.calm => settled = "yes" /\ OnItsWay(d, probes.alt_kind)
  BY DEF QrInv, QrTypes, AllDoWell, DoesWell, RequireCv2, Sites, SettledInv, Decoders
<1>2. probes \in Probes /\ (settled = "yes" => Tell(probes))
  BY <1>1 DEF QrInv, QrTypes, ProbesTell
<1> HIDE DEF d
<1>3. CASE ~probes.cv2_missing /\ "cv2" \in platform /\ Becomes(t, With(d))
           /\ probes' = IF d.pc = "probe" THEN [probes EXCEPT !.alt_kind = AltKind, !.locked = FALSE] ELSE probes
  <2>1. AltKind \in Alternates /\ AltKind # Unresolved
    BY <1>1, KindHere DEF Alternates, Alternate, NoKind, Unresolved
  <2>2. /\ probes' \in Probes /\ probes'.cv2_missing = probes.cv2_missing
        /\ probes'.alt_kind = IF d.pc = "probe" THEN AltKind ELSE probes.alt_kind
    BY <1>1, <1>3, <2>1 DEF QrTypes, Probes
  <2>3. settled = "yes" => Tell(probes')
    BY <1>3, <2>2 DEF QrInv, ProbesTell, Tell, HereKind
  <2>4. With(d) \in Decoders /\ With(d).calm = d.calm /\ With(d).failed_import = FALSE
        /\ (OnItsWay(d, probes.alt_kind) => DoesWell(With(d), probes'.alt_kind))
    BY <1>1, <1>3, <2>1, <2>2, WithDoes
  <2>5. DoesWell(With(d), probes'.alt_kind)
    BY <1>1, <2>4 DEF DoesWell
  <2> QED
    BY <1>1, <1>3, <2>1, <2>2, <2>3, <2>4, <2>5, StepKeeps DEF d
<1>4. CASE probes.cv2_missing /\ Becomes(t, Without(d))
           /\ probes' = IF d.pc = "probe" THEN [probes EXCEPT !.alt_kind = NoKind, !.locked = FALSE] ELSE probes
  <2>1. NoKind \in Alternates /\ NoKind # Unresolved
    BY DEF Alternates, NoKind, Unresolved
  <2>2. /\ probes' \in Probes /\ probes'.cv2_missing = probes.cv2_missing
        /\ probes'.alt_kind = IF d.pc = "probe" THEN NoKind ELSE probes.alt_kind
    BY <1>1, <1>4, <2>1 DEF QrTypes, Probes
  <2>3. settled = "yes" => Tell(probes') /\ "cv2" \notin platform
    BY <1>4, <2>2 DEF QrInv, ProbesTell, Tell, HereKind
  <2>4. Without(d) \in Decoders /\ Without(d).calm = d.calm /\ Without(d).failed_import = FALSE
        /\ (OnItsWay(d, probes.alt_kind) /\ "cv2" \notin platform => DoesWell(Without(d), probes'.alt_kind))
    BY <1>1, WithoutDoes
  <2>5. DoesWell(Without(d), probes'.alt_kind)
    BY <1>1, <2>3, <2>4 DEF DoesWell
  <2> QED
    BY <1>1, <1>4, <2>1, <2>2, <2>3, <2>4, <2>5, StepKeeps DEF d
<1>5. CASE ~probes.cv2_missing /\ "cv2" \notin platform /\ Becomes(t, [d EXCEPT !.failed_import = TRUE]) /\ UNCHANGED probes
  <2> DEFINE e == [d EXCEPT !.failed_import = TRUE]
  <2>1. e \in Decoders /\ e.calm = d.calm /\ e.pc = d.pc /\ e.left = d.left /\ e.image = d.image /\ e.kind = d.kind
        /\ e.alt_detector = d.alt_detector /\ e.result = d.result
    BY <1>1 DEF Decoders
  <2>2. probes' \in Probes /\ (settled = "yes" => Tell(probes'))
    BY <1>1, <1>2, <1>5 DEF QrInv, QrTypes, ProbesTell
  <2> HIDE DEF e
  <2>3. DoesWell(e, probes'.alt_kind)
    BY <1>1, <1>5, <2>1 DEF DoesWell, OnItsWay
  <2>4. Becomes(t, e)
    BY <1>5 DEF e
  <2> QED
    BY <1>1, <1>5, <2>1, <2>2, <2>3, <2>4, StepKeeps DEF d
<1> QED
  BY <1>3, <1>4, <1>5 DEF RequireCv2, d

LEMMA MarkMissingKeeps ==
  ASSUME OneAlternate, QrInv, NEW t \in Threads, MarkMissing(t)
  PROVE  QrInv'
<1> DEFINE d == [decoder[t] EXCEPT !.failed_import = FALSE]
<1>1. /\ QrTypes /\ decoder[t] \in Decoders /\ decoder[t].pc \in Sites /\ decoder[t].pc # "idle"
      /\ settled = "yes" => "cv2" \notin platform
      /\ decoder[t].calm => settled = "yes" /\ OnItsWay(decoder[t], probes.alt_kind)
  BY DEF QrInv, QrTypes, AllDoWell, DoesWell, MarkMissing, Sites, SettledInv, ProbesTell
<1>2. /\ d \in Decoders /\ d.failed_import = FALSE /\ d.pc = decoder[t].pc /\ d.calm = decoder[t].calm
      /\ d.left = decoder[t].left /\ d.image = decoder[t].image /\ d.kind = decoder[t].kind
      /\ d.alt_detector = decoder[t].alt_detector /\ d.result = decoder[t].result
  BY <1>1 DEF Decoders
<1>3. /\ Becomes(t, Without(d))
      /\ probes' = IF d.pc = "probe" THEN [cv2_missing |-> TRUE, alt_kind |-> NoKind, locked |-> FALSE]
                   ELSE [probes EXCEPT !.cv2_missing = TRUE]
  BY DEF MarkMissing
<1> HIDE DEF d
<1>4. d.calm => OnItsWay(d, probes.alt_kind)
  BY <1>1, <1>2 DEF OnItsWay
<1>5. NoKind \in Alternates /\ NoKind # Unresolved
  BY DEF Alternates, NoKind, Unresolved
<1>6. /\ probes' \in Probes /\ probes'.cv2_missing = TRUE
      /\ probes'.alt_kind = IF d.pc = "probe" THEN NoKind ELSE probes.alt_kind
  BY <1>1, <1>3, <1>5 DEF QrTypes, Probes
<1>7. settled = "yes" => Tell(probes')
  BY <1>1, <1>6 DEF QrInv, ProbesTell, Tell, HereKind
<1>8. /\ Without(d) \in Decoders /\ Without(d).calm = d.calm /\ Without(d).failed_import = FALSE
      /\ (OnItsWay(d, probes.alt_kind) /\ "cv2" \notin platform => DoesWell(Without(d), probes'.alt_kind))
  BY <1>1, <1>2, WithoutDoes
<1>9. DoesWell(Without(d), probes'.alt_kind)
  BY <1>1, <1>2, <1>4, <1>8 DEF DoesWell
<1> QED
  BY <1>1, <1>2, <1>3, <1>5, <1>6, <1>7, <1>8, <1>9, StepKeeps

LEMMA LookAtKindKeeps ==
  ASSUME QrInv, NEW t \in Threads, LookAtKind(t)
  PROVE  QrInv'
<1> DEFINE pc == IF probes.alt_kind = Unresolved THEN "kind_lock" ELSE "kind_known"
           d == Goes(decoder[t], pc)
<1>1. /\ decoder[t] \in Decoders /\ decoder[t].pc = "kind" /\ decoder[t].failed_import = FALSE
      /\ DoesWell(decoder[t], probes.alt_kind) /\ probes' = probes /\ probes \in Probes
      /\ settled = "yes" => Tell(probes)
      /\ Becomes(t, d)
  BY DEF QrInv, QrTypes, AllDoWell, LookAtKind, Sites, SettledInv, ProbesTell, Decoders
<1>2. pc \in {"kind_lock", "kind_known"} /\ pc \in Pcs /\ (pc = "kind_known" => probes.alt_kind # Unresolved)
  BY DEF Pcs
<1> HIDE DEF pc
<1>3. /\ d \in Decoders /\ d.pc = pc /\ d.image = decoder[t].image /\ d.calm = decoder[t].calm
      /\ d.failed_import = FALSE
  BY <1>1, <1>2, GoesDoes
<1> HIDE DEF d
<1>4. DoesWell(d, probes.alt_kind)
  BY <1>1, <1>2, <1>3 DEF DoesWell, OnItsWay, BeyondFactory, BeyondVariants
<1> QED
  BY <1>1, <1>3, <1>4, StepKeeps

LEMMA LockKindKeeps ==
  ASSUME QrInv, NEW t \in Threads, LockKind(t)
  PROVE  QrInv'
<1> DEFINE pc == IF probes.alt_kind = Unresolved THEN "probe" ELSE "kind_known"
           d == Goes(decoder[t], pc)
<1>1. /\ decoder[t] \in Decoders /\ decoder[t].pc = "kind_lock" /\ decoder[t].failed_import = FALSE
      /\ DoesWell(decoder[t], probes.alt_kind) /\ probes \in Probes
      /\ probes' = [probes EXCEPT !.locked = probes.alt_kind = Unresolved]
      /\ settled = "yes" => Tell(probes)
      /\ Becomes(t, d)
  BY DEF QrInv, QrTypes, AllDoWell, LockKind, Sites, SettledInv, ProbesTell, Decoders
<1>2. pc \in {"probe", "kind_known"} /\ pc \in Pcs /\ (pc = "kind_known" => probes.alt_kind # Unresolved)
  BY DEF Pcs, Sites
<1>3. /\ probes' \in Probes /\ probes'.alt_kind = probes.alt_kind /\ probes'.cv2_missing = probes.cv2_missing
  BY <1>1 DEF Probes
<1>4. settled = "yes" => Tell(probes')
  BY <1>1, <1>3 DEF Tell
<1> HIDE DEF pc
<1>5. /\ d \in Decoders /\ d.pc = pc /\ d.image = decoder[t].image /\ d.calm = decoder[t].calm
      /\ d.failed_import = FALSE
  BY <1>1, <1>2, GoesDoes
<1> HIDE DEF d
<1>6. DoesWell(d, probes.alt_kind)
  BY <1>1, <1>2, <1>5 DEF DoesWell, OnItsWay, BeyondFactory, BeyondVariants
<1> QED
  BY <1>1, <1>3, <1>4, <1>5, <1>6, StepKeeps

LEMMA ReturnKindKeeps ==
  ASSUME OneAlternate, QrInv, NEW t \in Threads, ReturnKind(t)
  PROVE  QrInv'
<1> DEFINE c == [decoder[t] EXCEPT !.kind = probes.alt_kind]
           d == CASE c.kind = NoKind -> Returns(c, "none")
                  [] c.kind # NoKind /\ c.alt_detector = NoKind -> Goes(c, "alt_detector")
                  [] OTHER -> Goes(c, "alt_decode")
<1>1. /\ QrTypes /\ decoder[t] \in Decoders /\ decoder[t].pc = "kind_known" /\ decoder[t].failed_import = FALSE
      /\ DoesWell(decoder[t], probes.alt_kind) /\ probes' = probes /\ probes \in Probes
      /\ settled = "yes" => Tell(probes)
      /\ decoder[t].calm => settled = "yes"
      /\ Becomes(t, d)
  BY DEF QrInv, QrTypes, AllDoWell, ReturnKind, Sites, SettledInv, ProbesTell, Decoders
<1>2. /\ c \in Decoders /\ c.failed_import = FALSE /\ c.calm = decoder[t].calm /\ c.pc = "kind_known"
      /\ c.kind = probes.alt_kind /\ c.image = decoder[t].image /\ c.alt_detector \in Alternates
  BY <1>1 DEF Decoders, Probes
<1> HIDE DEF c
<1>3. c.calm => /\ c.kind = AltKind /\ c.image = "blind" /\ "cv2" \in platform /\ registry.selected # "other"
  BY <1>1, <1>2 DEF DoesWell, OnItsWay, BeyondFactory, BeyondVariants, Tell, HereKind
<1>4. "alt_detector" \in Pcs /\ "alt_decode" \in Pcs
  BY DEF Pcs, Sites
<1>5. CASE c.kind = NoKind
  <2>1. d = Returns(c, "none")
    BY <1>5
  <2> HIDE DEF d
  <2>2. /\ d \in Decoders /\ d.pc = "idle" /\ d.result = "none" /\ d.image = c.image
        /\ d.calm = c.calm /\ d.failed_import = FALSE
    BY <1>2, <2>1, ReturnsDoes
  <2>3. d.calm => ~Decodable(d.image)
    BY <1>1, <1>2, <1>3, <1>5, <2>2, Cv2Reads
  <2>4. DoesWell(d, probes.alt_kind)
    BY <2>2, <2>3 DEF DoesWell, Complete
  <2> QED
    BY <1>1, <1>2, <2>2, <2>4, StepKeeps
<1>6. CASE c.kind # NoKind /\ c.alt_detector = NoKind
  <2>1. d = Goes(c, "alt_detector")
    BY <1>6
  <2> HIDE DEF d
  <2>2. /\ d \in Decoders /\ d.pc = "alt_detector" /\ d.image = c.image /\ d.kind = c.kind
        /\ d.calm = c.calm /\ d.failed_import = FALSE
    BY <1>2, <1>4, <2>1, GoesDoes
  <2>3. DoesWell(d, probes.alt_kind)
    BY <1>3, <1>6, <2>2 DEF DoesWell, OnItsWay, BeyondFactory, BeyondVariants
  <2> QED
    BY <1>1, <1>2, <2>2, <2>3, StepKeeps
<1>7. CASE c.kind # NoKind /\ c.alt_detector # NoKind
  <2>1. d = Goes(c, "alt_decode")
    BY <1>7
  <2> HIDE DEF d
  <2>2. /\ d \in Decoders /\ d.pc = "alt_decode" /\ d.image = c.image /\ d.kind = c.kind
        /\ d.calm = c.calm /\ d.failed_import = FALSE /\ d.alt_detector = c.alt_detector
    BY <1>2, <1>4, <2>1, GoesDoes
  <2>3. d.calm => d.alt_detector = d.kind
    BY <1>1, <1>2, <1>3, <1>7, <2>2, KindHere DEF Alternates
  <2>4. DoesWell(d, probes.alt_kind)
    BY <1>3, <1>7, <2>2, <2>3 DEF DoesWell, OnItsWay, BeyondFactory, BeyondVariants
  <2> QED
    BY <1>1, <1>2, <2>2, <2>4, StepKeeps
<1> QED
  BY <1>5, <1>6, <1>7

\* What disturbs makes every decode one that says nothing.
LEMMA DisturbKeeps ==
  ASSUME QrTypes', Disturb, UNCHANGED probes, QrInv
  PROVE  QrInv'
<1>1. /\ settled' = "no" /\ decoder \in [Threads -> Decoders]
      /\ decoder' = [t \in Threads |-> [decoder[t] EXCEPT !.calm = FALSE]]
  BY DEF Disturb, QrInv, QrTypes
<1>2. \A t \in Threads : /\ decoder'[t].calm = FALSE /\ decoder'[t].pc = decoder[t].pc
                         /\ decoder'[t].failed_import = decoder[t].failed_import
  BY <1>1 DEF Decoders
<1>3. SettledInv'
  BY <1>1, <1>2 DEF QrInv, SettledInv
<1>4. ProbesTell' /\ AllDoWell'
  BY <1>1, <1>2 DEF ProbesTell, AllDoWell, DoesWell
<1> QED
  BY <1>3, <1>4 DEF QrInv

LEMMA DisturbTypes ==
  ASSUME QrTypes, Disturb
  PROVE  decoder' \in [Threads -> Decoders] /\ settled' = "no"
<1>1. settled' = "no" /\ decoder' = [t \in Threads |-> [decoder[t] EXCEPT !.calm = FALSE]]
  BY DEF Disturb
<1>2. ASSUME NEW d \in Decoders PROVE [d EXCEPT !.calm = FALSE] \in Decoders
  <2> DEFINE e == [d EXCEPT !.calm = FALSE]
  <2>1. e.pc = d.pc /\ e.left = d.left /\ (d.pc = "factory" => d.left \in Orders)
    BY DEF Decoders
  <2>2. e \in [pc : Pcs, failed_import : BOOLEAN, image : Images, left : Orders \cup {<<>>}, kind : Alternates \cup {Unresolved},
               detector : BOOLEAN, alt_detector : Alternates, result : {"none", "payload"}, calm : BOOLEAN]
    BY DEF Decoders
  <2> HIDE DEF e
  <2> QED
    BY <2>1, <2>2 DEF Decoders
<1>3. \A t \in Threads : decoder[t] \in Decoders
  BY DEF QrTypes
<1> QED
  BY <1>1, <1>2, <1>3

LEMMA ConfigureKeeps ==
  ASSUME QrInv, NEW new \in [names : Orders, selected : {Automatic, "cv2", "other"}],
         new.selected = "other" => new.names = <<"cv2", "other">>, Configure(new)
  PROVE  QrInv'
<1>1. QrTypes'
  <2>1. decoder' \in [Threads -> Decoders] /\ settled' = "no"
    BY DisturbTypes DEF QrInv, Configure
  <2>2. /\ platform' = platform /\ probes' = probes /\ registry' = new
        /\ config' = [pc |-> "cv2_missing", calls |-> config.calls + 1] /\ config.calls \in Nat
    BY DEF Configure, QrInv, QrTypes
  <2> QED
    BY <2>1, <2>2 DEF QrInv, QrTypes, Decoders, Probes, Alternates, Alternate
<1> QED
  BY <1>1, DisturbKeeps DEF Configure

LEMMA RegisterBackendKeeps ==
  ASSUME QrInv, NEW name \in {"cv2", "other"}, RegisterBackend(name)
  PROVE  QrInv'
<1> DEFINE names == registry.names
           after == IF \E i \in DOMAIN names : names[i] = name THEN names ELSE Append(names, name)
           new == [registry EXCEPT !.names = after]
<1>1. registry \in [names : Orders, selected : {Automatic, "cv2", "other"}] /\ names \in Orders
      /\ (registry.selected = "other" => names = <<"cv2", "other">>)
  BY DEF QrInv, QrTypes
<1>2. after \in Orders /\ (names = <<"cv2", "other">> => after = names)
  BY <1>1, Tuples DEF Orders
<1>3. Configure(new)
  BY DEF RegisterBackend
<1> HIDE DEF after
<1>4. /\ new \in [names : Orders, selected : {Automatic, "cv2", "other"}]
      /\ new.selected = "other" => new.names = <<"cv2", "other">>
  BY <1>1, <1>2
<1> QED
  BY <1>3, <1>4, ConfigureKeeps

LEMMA SetBackendKeeps ==
  ASSUME QrInv, NEW name \in {Automatic, "cv2", "other"}, SetBackend(name)
  PROVE  QrInv'
<1> DEFINE new == [registry EXCEPT !.selected = name]
<1>1. registry \in [names : Orders, selected : {Automatic, "cv2", "other"}] /\ registry.names \in Orders
  BY DEF QrInv, QrTypes
<1>2. name = "other" => registry.names = <<"cv2", "other">>
  BY <1>1, Tuples DEF SetBackend, Orders, Automatic
<1> QED
  BY <1>1, <1>2, ConfigureKeeps DEF SetBackend

LEMMA PlatformChangesKeeps ==
  ASSUME QrInv, NEW new \in Platforms, PlatformChanges(new)
  PROVE  QrInv'
<1>1. QrTypes'
  <2>1. decoder' \in [Threads -> Decoders] /\ settled' = "no"
    BY DisturbTypes DEF QrInv, PlatformChanges
  <2> QED
    BY <2>1 DEF PlatformChanges, QrInv, QrTypes, Decoders, Probes, Alternates, Alternate
<1> QED
  BY <1>1, DisturbKeeps DEF PlatformChanges

LEMMA ResetMissingKeeps ==
  ASSUME QrInv, ResetMissing
  PROVE  QrInv'
<1>1. /\ QrTypes /\ config.pc = "cv2_missing" /\ settled # "yes"
      /\ \A t \in Threads : ~decoder[t].calm /\ decoder[t] \in Decoders
  BY DEF QrInv, ResetMissing, SettledInv, QrTypes, Decoders
<1>2. /\ probes' = [probes EXCEPT !.cv2_missing = FALSE] /\ config' = [config EXCEPT !.pc = "alt_kind"]
      /\ settled' = IF \A t \in Threads : decoder[t].pc = "idle" THEN "resetting" ELSE "no"
      /\ UNCHANGED <<platform, registry, decoder, changes>>
  BY DEF ResetMissing
<1>3. probes' \in Probes /\ probes'.cv2_missing = FALSE /\ config'.pc = "alt_kind"
      /\ config' \in [pc : {"idle", "cv2_missing", "alt_kind"}, calls : Nat]
  BY <1>1, <1>2 DEF QrTypes, Probes
<1>4. QrTypes'
  BY <1>1, <1>2, <1>3 DEF QrTypes, Decoders, Probes, Alternates, Alternate
<1>5. SettledInv'
  BY <1>1, <1>2, <1>3 DEF QrInv, SettledInv
<1>6. ProbesTell' /\ AllDoWell'
  BY <1>1, <1>2 DEF ProbesTell, AllDoWell, DoesWell
<1> QED
  BY <1>4, <1>5, <1>6 DEF QrInv

LEMMA ResetKindKeeps ==
  ASSUME QrInv, ResetKind
  PROVE  QrInv'
<1>1. /\ QrTypes /\ config.pc = "alt_kind" /\ settled # "yes"
      /\ \A t \in Threads : ~decoder[t].calm /\ decoder[t] \in Decoders
      /\ settled = "resetting" => ~probes.cv2_missing /\ \A t \in Threads : decoder[t].pc = "idle"
      /\ \A t \in Threads : decoder[t].failed_import => decoder[t].pc \in Sites
  BY DEF QrInv, ResetKind, SettledInv, QrTypes, Decoders
<1>2. /\ probes' = [probes EXCEPT !.alt_kind = Unresolved] /\ config' = [config EXCEPT !.pc = "idle"]
      /\ settled' = IF settled = "resetting" THEN "yes" ELSE "no"
      /\ UNCHANGED <<platform, registry, decoder, changes>>
  BY DEF ResetKind
<1>3. /\ probes' \in Probes /\ probes'.cv2_missing = probes.cv2_missing /\ probes'.alt_kind = Unresolved
      /\ config'.pc = "idle" /\ config' \in [pc : {"idle", "cv2_missing", "alt_kind"}, calls : Nat]
  BY <1>1, <1>2 DEF QrTypes, Probes
<1>4. QrTypes'
  BY <1>1, <1>2, <1>3 DEF QrTypes, Decoders, Probes, Alternates, Alternate
<1>5. SettledInv'
  BY <1>1, <1>2, <1>3 DEF QrInv, SettledInv
<1>6. ProbesTell'
  BY <1>1, <1>2, <1>3 DEF ProbesTell, Tell, Sites
<1>7. AllDoWell'
  BY <1>1, <1>2 DEF AllDoWell, DoesWell
<1> QED
  BY <1>4, <1>5, <1>6, <1>7 DEF QrInv

LEMMA QrStartHolds == Init => QrInv
<1> SUFFICES ASSUME Init PROVE QrInv
  OBVIOUS
<1>1. /\ platform \in Platforms /\ settled = "yes"
      /\ probes = [cv2_missing |-> FALSE, alt_kind |-> Unresolved, locked |-> FALSE]
      /\ registry = [names |-> <<"cv2">>, selected |-> Automatic]
      /\ config = [pc |-> "idle", calls |-> 0]
      /\ decoder = [t \in Threads |->
           [pc |-> "idle", failed_import |-> FALSE, image |-> "plain", left |-> <<>>, kind |-> NoKind,
            detector |-> FALSE, alt_detector |-> NoKind, result |-> "none", calm |-> FALSE]]
  BY DEF Init
<1>2. \A t \in Threads : decoder[t] \in Decoders /\ decoder[t].pc = "idle" /\ ~decoder[t].calm /\ ~decoder[t].failed_import
  BY <1>1 DEF Decoders, Pcs, Images, Alternates
<1>3. probes \in Probes
  BY <1>1 DEF Probes
<1>4. registry \in [names : Orders, selected : {Automatic, "cv2", "other"}] /\ registry.selected # "other"
  BY <1>1 DEF Orders, Automatic
<1>5. QrTypes
  BY <1>1, <1>2, <1>3, <1>4 DEF QrTypes
<1>6. SettledInv /\ ProbesTell /\ AllDoWell
  BY <1>1, <1>2 DEF SettledInv, ProbesTell, Tell, AllDoWell, DoesWell
<1> QED
  BY <1>5, <1>6 DEF QrInv

LEMMA QrStepHolds ==
  ASSUME OneAlternate, QrInv, [Next]_vars
  PROVE  QrInv'
<1>1. CASE UNCHANGED vars
  BY <1>1 DEF vars, QrInv, QrTypes, Decoders, Probes, Alternates, Alternate, SettledInv, ProbesTell, Tell, HereKind,
              AllDoWell, DoesWell, OnItsWay, Complete, Decodable, AltKind
<1>2. ASSUME NEW t \in Threads, NEW image \in Images, DecodeFrame(t, image) PROVE QrInv'
  BY <1>2, DecodeFrameKeeps
<1>3. ASSUME NEW t \in Threads, RequireCv2(t) \/ MarkMissing(t) \/ LookAtKind(t) \/ LockKind(t) \/ ReturnKind(t)
      PROVE QrInv'
  BY <1>3, RequireCv2Keeps, MarkMissingKeeps, LookAtKindKeeps, LockKindKeeps, ReturnKindKeeps
<1>4. CASE \E name \in {"cv2", "other"} : RegisterBackend(name)
  BY <1>4, RegisterBackendKeeps
<1>5. CASE \E name \in {Automatic, "cv2", "other"} : SetBackend(name)
  BY <1>5, SetBackendKeeps
<1>6. CASE Configure(registry)
  BY <1>6, ConfigureKeeps DEF QrInv, QrTypes
<1>7. CASE ResetMissing \/ ResetKind
  BY <1>7, ResetMissingKeeps, ResetKindKeeps
<1>8. CASE \E new \in Platforms : PlatformChanges(new)
  BY <1>8, PlatformChangesKeeps
<1> QED
  BY <1>1, <1>2, <1>3, <1>4, <1>5, <1>6, <1>7, <1>8 DEF Next

\* Whatever the number of threads, calls and changes of platform: once the probes have been
\* reset with no decode under way, a decode returns the payload exactly when the backend
\* that is selected can read the image, as long as the platforms know one alternate
\* detector at most (decode.py:177-221, 278-312, 578-591; qr_stale shows what two do).
THEOREM DecodesWhatItCan ==
  ASSUME OneAlternate
  PROVE  Spec => []DecodeComplete
<1>1. QrInv => DecodeComplete
  BY DEF QrInv, AllDoWell, DoesWell, Complete, DecodeComplete
<1>2. Init => QrInv
  BY QrStartHolds
<1>3. QrInv /\ [Next]_vars => QrInv'
  BY QrStepHolds
<1> QED
  BY <1>1, <1>2, <1>3, PTL DEF Spec

----------------------------------------------------------------------------
(* Frames over a stream.                                                   *)

Frames == [id : Nat, length : 0..MaxLength + 1, parses : BOOLEAN]

Pieces == Seq(Nat \X Nat)

FrTypes ==
  /\ max_payload \in Nat \ {0}
  /\ sender \in [established : BOOLEAN, switches : Nat, next_msg_id : Nat, sent : Seq(Frames)]
  /\ stream \in [wire : Seq(Pieces), buffer : Seq(Pieces)]
  /\ reader \in [pc : {"idle", "pump", "feed"}, drained : Seq(Pieces), buf : Pieces, messages : Seq(Frames),
                 new_messages : Seq(Frames), received : Seq(Frames), raised : BOOLEAN]
  /\ reader.pc # "feed" => reader.messages = <<>>
  /\ reader.pc = "idle" => reader.drained = <<>> /\ reader.new_messages = <<>>

Size(n) == LengthSize + sender.sent[n].length

End == <<Len(sender.sent) + 1, 1>>

LastOf(s) == s[Len(s)]

\* A byte that was sent.
Sent(b) == b[1] \in DOMAIN sender.sent /\ b[2] \in 1..Size(b[1])

\* A chunk is a part of one frame.
IsChunk(c) ==
  /\ c # <<>> /\ c[1][1] \in DOMAIN sender.sent /\ c[1][2] >= 1
  /\ \A k \in DOMAIN c : c[k] = <<c[1][1], c[1][2] + k - 1>>
  /\ c[1][2] + Len(c) - 1 <= Size(c[1][1])

\* What the reader has not put into its buffer yet.
Coming == reader.drained \o stream.buffer \o stream.wire

\* One chunk follows the other, and the last one ends what was sent.
Chained(cs) ==
  /\ \A i \in 1..Len(cs) : IsChunk(cs[i])
  /\ \A i \in 1..Len(cs) : i < Len(cs) => cs[i + 1][1] = NextByte(LastOf(cs[i]))
  /\ cs # <<>> => NextByte(LastOf(LastOf(cs))) = End

\* The bytes of a frame lie side by side up to its end, and those of the next frame follow.
Run(s) ==
  \A i, j \in 1..Len(s) : i <= j =>
    /\ s[i][2] + (j - i) <= Size(s[i][1]) => s[j] = <<s[i][1], s[i][2] + (j - i)>>
    /\ s[i][2] + (j - i) = Size(s[i][1]) + 1 => s[j] = <<s[i][1] + 1, 1>>

Parsed == reader.received \o reader.new_messages \o reader.messages

ParsedInv ==
  /\ Len(Parsed) <= Len(sender.sent)
  /\ \A i \in 1..Len(Parsed) : Parsed[i] = sender.sent[i] /\ sender.sent[i].parses

IdsInv ==
  /\ (\A i \in 1..Len(sender.sent) : sender.sent[i].parses) => sender.next_msg_id = Len(sender.sent) + 1
  /\ \A i \in 1..Len(sender.sent) : (\A j \in 1..i : sender.sent[j].parses) => sender.sent[i].id = i

BufSent == \A i \in 1..Len(reader.buf) : Sent(reader.buf[i])

Due == IF reader.buf = <<>> THEN <<Len(Parsed) + 1, 1>> ELSE NextByte(LastOf(reader.buf))

\* From the first message not parsed yet to the end of what was sent, nothing is missing.
Linked ==
  /\ Run(reader.buf)
  /\ reader.buf # <<>> => reader.buf[1] = <<Len(Parsed) + 1, 1>>
  /\ IF Coming = <<>> THEN Due = End ELSE Coming[1][1] = Due

\* The frame that raised stays at the head of the buffer.
Stuck ==
  /\ reader.new_messages = <<>> /\ reader.messages = <<>>
  /\ LengthKnown /\ (LengthBad \/ (FrameThere /\ ~HeadFrame.parses))

FrInv ==
  /\ FrTypes /\ BufSent /\ Chained(Coming) /\ ParsedInv /\ IdsInv
  /\ IF reader.raised THEN Stuck ELSE Linked /\ (reader.pc # "feed" => ~FrameThere)

\* Sequences put behind one another in either order.
Regroups(s, t, u) == (s \o t) \o u = s \o (t \o u)
AppendsBehind(s, t, x) == s \o Append(t, x) = Append(s \o t, x)

LEMMA Regrouped ==
  ASSUME NEW S, NEW s \in Seq(S), NEW t \in Seq(S), NEW u \in Seq(S)
  PROVE  Regroups(s, t, u)
BY SMT DEF Regroups

LEMMA AppendedBehind ==
  ASSUME NEW S, NEW s \in Seq(S), NEW t \in Seq(S), NEW x \in S
  PROVE  AppendsBehind(s, t, x)
BY SMT DEF AppendsBehind

LEMMA Concat3 ==
  ASSUME NEW S, NEW s \in Seq(S), NEW t \in Seq(S), NEW u \in Seq(S)
  PROVE  /\ s \o t \o u \in Seq(S) /\ Len(s \o t \o u) = Len(s) + Len(t) + Len(u)
         /\ s \o t \o u = s \o (t \o u)
<1>1. s \o t \in Seq(S) /\ Len(s \o t) = Len(s) + Len(t)
  BY ConcatProperties
<1>2. s \o t \o u \in Seq(S) /\ Len(s \o t \o u) = Len(s \o t) + Len(u)
  BY <1>1, ConcatProperties
<1>3. Regroups(s, t, u)
  BY Regrouped
<1> QED
  BY <1>1, <1>2, <1>3 DEF Regroups

\* The first of what follows becomes the last of what precedes.
LEMMA MovesOver ==
  ASSUME NEW d \in Seq(Pieces), NEW b \in Seq(Pieces), NEW w \in Seq(Pieces), w # <<>>
  PROVE  d \o Append(b, Head(w)) \o Tail(w) = d \o b \o w
<1> DEFINE h == <<Head(w)>>
           t == Tail(w)
<1>1. Head(w) \in Pieces /\ t \in Seq(Pieces) /\ h \in Seq(Pieces)
  BY HeadTailProperties
<1>2. h \o t = w
  <2>1. SubSeq(w, 1, Len(w)) = <<w[1]>> \o SubSeq(w, 2, Len(w))
    BY SubSeqRecursiveFirst
  <2> QED
    BY <2>1, SubSeqFull, TailIsSubSeq
<1>3. Append(b, Head(w)) = b \o h
  BY <1>1, AppendIsConcat
<1> HIDE DEF h, t
<1>4. Regroups(d, b, h)
  BY <1>1, Regrouped
<1>5. (d \o (b \o h)) \o t = (d \o b) \o (h \o t)
  <2> DEFINE e == d \o b
  <2>1. e \in Seq(Pieces)
    BY ConcatProperties
  <2> HIDE DEF e
  <2>2. Regroups(e, h, t)
    BY <1>1, <2>1, Regrouped
  <2> QED
    BY <1>4, <2>2 DEF Regroups, e
<1> QED
  BY <1>2, <1>3, <1>5, Zenon DEF t

LEMMA ComingType ==
  ASSUME FrTypes
  PROVE  Coming \in Seq(Pieces) /\ Parsed \in Seq(Frames) /\ End \in Nat \X Nat
<1>1. /\ reader.drained \in Seq(Pieces) /\ stream.buffer \in Seq(Pieces) /\ stream.wire \in Seq(Pieces)
      /\ reader.received \in Seq(Frames) /\ reader.new_messages \in Seq(Frames) /\ reader.messages \in Seq(Frames)
      /\ Len(sender.sent) \in Nat
  BY DEF FrTypes
<1> QED
  BY <1>1, Concat3 DEF Coming, Parsed, End

\* Where only the pieces change places, and messages theirs.
LEMMA SameHolds ==
  ASSUME FrInv, FrTypes', sender'.sent = sender.sent, sender'.next_msg_id = sender.next_msg_id,
         reader'.buf = reader.buf, Coming' = Coming, Parsed' = Parsed,
         reader'.raised = reader.raised,
         reader.raised => reader'.new_messages = <<>> /\ reader'.messages = <<>>,
         ~reader.raised /\ reader'.pc # "feed" => ~FrameThere
  PROVE  FrInv'
<1>1. (FrameThere' <=> FrameThere) /\ (LengthKnown' <=> LengthKnown) /\ (LengthBad' <=> LengthBad) /\ HeadFrame' = HeadFrame
  BY DEF FrameThere, LengthKnown, LengthBad, FrameEnd, HeadFrame
<1>2. BufSent'
  BY DEF FrInv, BufSent, Sent, Size
<1>3. Chained(Coming)'
  BY DEF FrInv, Chained, IsChunk, NextByte, Size, LastOf, End
<1>4. ParsedInv' /\ IdsInv'
  BY DEF FrInv, ParsedInv, IdsInv
<1>5. reader.raised => Stuck'
  BY <1>1 DEF FrInv, Stuck
<1>6. ~reader.raised => Linked'
  <2>1. (\A n : Size(n)' = Size(n)) /\ (\A b : NextByte(b)' = NextByte(b)) /\ End' = End
    BY DEF Size, NextByte, End
  <2>2. Run(reader.buf) => Run(reader.buf)'
    BY <2>1 DEF Run
  <2>3. Due' = Due
    BY <2>1 DEF Due, LastOf
  <2>4. ~reader.raised => Linked
    BY DEF FrInv
  <2> QED
    BY <2>1, <2>2, <2>3, <2>4 DEF Linked
<1> QED
  BY <1>1, <1>2, <1>3, <1>4, <1>5, <1>6 DEF FrInv

LEMMA Fields ==
  ASSUME FrTypes
  PROVE  /\ reader.drained \in Seq(Pieces) /\ stream.buffer \in Seq(Pieces) /\ stream.wire \in Seq(Pieces)
         /\ reader.received \in Seq(Frames) /\ reader.new_messages \in Seq(Frames) /\ reader.messages \in Seq(Frames)
         /\ sender.sent \in Seq(Frames) /\ Len(sender.sent) \in Nat /\ DOMAIN sender.sent = 1..Len(sender.sent)
         /\ reader.buf \in Pieces /\ Len(reader.buf) \in Nat /\ (reader.buf = <<>> <=> Len(reader.buf) = 0)
         /\ \A i \in 1..Len(sender.sent) : sender.sent[i] \in Frames
  BY DEF FrTypes, Pieces

LEMMA SessionSwitchesHolds ==
  ASSUME FrInv, SessionSwitches
  PROVE  FrInv'
<1>0. /\ FrTypes /\ sender' = [sender EXCEPT !.established = ~sender.established, !.switches = sender.switches + 1]
      /\ UNCHANGED <<max_payload, stream, reader>>
  BY DEF FrInv, SessionSwitches
<1>1. FrTypes'
  <2>1. (~sender.established) \in BOOLEAN
    OBVIOUS
  <2>2. sender.switches + 1 \in Nat
    BY <1>0 DEF FrTypes
  <2> DEFINE new == ~sender.established
  <2> HIDE DEF new
  <2>3. new \in BOOLEAN /\ sender' = [sender EXCEPT !.established = new, !.switches = sender.switches + 1]
    BY <1>0, <2>1 DEF new
  <2> QED
    BY <1>0, <2>2, <2>3 DEF FrTypes
<1>2. /\ sender'.sent = sender.sent /\ sender'.next_msg_id = sender.next_msg_id /\ reader' = reader /\ stream' = stream
  BY DEF FrInv, FrTypes, SessionSwitches
<1> QED
  BY <1>1, <1>2, SameHolds DEF Coming, Parsed, FrInv, Stuck

LEMMA ArrivesHolds ==
  ASSUME FrInv, Arrives
  PROVE  FrInv'
<1>1. FrTypes /\ stream.wire # <<>>
  BY DEF FrInv, Arrives
<1> DEFINE h == Head(stream.wire)
           t == Tail(stream.wire)
<1>2. stream' = [wire |-> t, buffer |-> Append(stream.buffer, h)] /\ sender' = sender /\ reader' = reader /\ max_payload' = max_payload
  BY DEF Arrives
<1>3. h \in Pieces /\ t \in Seq(Pieces)
  BY <1>1, HeadTailProperties DEF FrTypes
<1>4. Append(stream.buffer, h) \in Seq(Pieces)
  BY <1>1, <1>3, AppendProperties DEF FrTypes
<1>5. FrTypes'
  BY <1>1, <1>2, <1>3, <1>4 DEF FrTypes
<1>6. Coming' = Coming
  <2>1. reader.drained \in Seq(Pieces) /\ stream.buffer \in Seq(Pieces) /\ stream.wire \in Seq(Pieces)
    BY <1>1 DEF FrTypes
  <2>2. reader.drained \o Append(stream.buffer, Head(stream.wire)) \o Tail(stream.wire) = reader.drained \o stream.buffer \o stream.wire
    BY <1>1, <2>1, MovesOver, Zenon
  <2> QED
    BY <1>2, <2>2 DEF Coming
<1> HIDE DEF h, t
<1> QED
  BY <1>2, <1>5, <1>6, SameHolds DEF Parsed, FrInv, Stuck

LEMMA PumpDrainsHolds ==
  ASSUME FrInv, PumpDrains
  PROVE  FrInv'
<1>1. /\ FrTypes /\ reader.pc = "idle" /\ reader.drained = <<>> /\ reader.new_messages = <<>> /\ reader.messages = <<>>
  BY DEF FrInv, FrTypes, PumpDrains
<1>2. /\ reader' = [reader EXCEPT !.pc = "pump", !.drained = stream.buffer, !.new_messages = <<>>]
      /\ stream' = [stream EXCEPT !.buffer = <<>>] /\ sender' = sender /\ max_payload' = max_payload
  BY DEF PumpDrains
<1>3. /\ reader'.pc = "pump" /\ reader'.drained = stream.buffer /\ reader'.new_messages = <<>>
      /\ reader'.messages = reader.messages /\ reader'.received = reader.received
      /\ reader'.buf = reader.buf /\ reader'.raised = reader.raised
      /\ stream'.buffer = <<>> /\ stream'.wire = stream.wire
  BY <1>1, <1>2 DEF FrTypes
<1>4. FrTypes'
  BY <1>1, <1>2, <1>3 DEF FrTypes
<1>5. Coming' = Coming
  <2>1. stream.buffer \o <<>> = stream.buffer /\ <<>> \o stream.buffer = stream.buffer
    BY <1>1, Fields, ConcatEmptySeq
  <2> QED
    BY <1>1, <1>3, <2>1 DEF Coming
<1>6. Parsed' = Parsed
  BY <1>1, <1>3 DEF Parsed
<1> QED
  BY <1>1, <1>2, <1>3, <1>4, <1>5, <1>6, SameHolds DEF FrInv

LEMMA FeedReturnsHolds ==
  ASSUME FrInv, FeedReturns
  PROVE  FrInv'
<1>1. FrTypes /\ reader.pc = "feed" /\ ~FrameThere
  BY DEF FrInv, FeedReturns, FrameThere
<1>2. /\ reader' = [reader EXCEPT !.pc = "pump", !.new_messages = reader.new_messages \o reader.messages, !.messages = <<>>]
      /\ sender' = sender /\ stream' = stream /\ max_payload' = max_payload
  BY DEF FeedReturns
<1>3. reader.new_messages \o reader.messages \in Seq(Frames) /\ <<>> \in Seq(Frames)
  BY <1>1, Fields, ConcatProperties
<1>4. /\ reader'.pc = "pump" /\ reader'.drained = reader.drained /\ reader'.new_messages = reader.new_messages \o reader.messages
      /\ reader'.messages = <<>> /\ reader'.received = reader.received
      /\ reader'.buf = reader.buf /\ reader'.raised = reader.raised
  BY <1>1, <1>2 DEF FrTypes
<1>5. FrTypes'
  <2> DEFINE new == reader.new_messages \o reader.messages
  <2> HIDE DEF new
  <2>1. new \in Seq(Frames) /\ reader' = [reader EXCEPT !.pc = "pump", !.new_messages = new, !.messages = <<>>]
    BY <1>2, <1>3 DEF new
  <2>2. reader' \in [pc : {"idle", "pump", "feed"}, drained : Seq(Pieces), buf : Pieces, messages : Seq(Frames),
                     new_messages : Seq(Frames), received : Seq(Frames), raised : BOOLEAN]
    BY <1>1, <1>3, <2>1 DEF FrTypes
  <2> QED
    BY <1>1, <1>2, <1>4, <2>2 DEF FrTypes
<1>6. Parsed' = Parsed
  <2>0. /\ reader.received \in Seq(Frames) /\ reader.new_messages \in Seq(Frames) /\ reader.messages \in Seq(Frames)
    BY <1>1, Fields
  <2>1. reader.received \o (reader.new_messages \o reader.messages) \in Seq(Frames)
    BY <1>1, <1>3, Fields, ConcatProperties
  <2>2. Parsed' = reader.received \o (reader.new_messages \o reader.messages)
    BY <1>4, <2>1, ConcatEmptySeq DEF Parsed
  <2>3. reader.received \o (reader.new_messages \o reader.messages) = (reader.received \o reader.new_messages) \o reader.messages
    <3>1. Regroups(reader.received, reader.new_messages, reader.messages)
      BY <2>0, Regrouped
    <3> QED
      BY <3>1 DEF Regroups
  <2> QED
    BY <2>2, <2>3 DEF Parsed
<1>7. reader.raised => reader'.new_messages = <<>>
  <2>1. reader.raised => reader.new_messages = <<>> /\ reader.messages = <<>>
    BY DEF FrInv, Stuck
  <2>2. <<>> \o <<>> = <<>>
    OBVIOUS
  <2> QED
    BY <1>4, <2>1, <2>2
<1>8. Coming' = Coming
  BY <1>2, <1>4 DEF Coming
<1> QED
  BY <1>1, <1>2, <1>4, <1>5, <1>6, <1>7, <1>8, SameHolds

LEMMA PumpReturnsHolds ==
  ASSUME FrInv, PumpReturns
  PROVE  FrInv'
<1>1. FrTypes /\ reader.pc = "pump" /\ reader.drained = <<>> /\ reader.messages = <<>>
  BY DEF FrInv, FrTypes, PumpReturns
<1>2. /\ reader' = [reader EXCEPT !.pc = "idle", !.received = reader.received \o reader.new_messages, !.new_messages = <<>>]
      /\ sender' = sender /\ stream' = stream /\ max_payload' = max_payload
  BY DEF PumpReturns
<1>3. reader.received \o reader.new_messages \in Seq(Frames)
  BY <1>1, Fields, ConcatProperties
<1>4. /\ reader'.pc = "idle" /\ reader'.drained = <<>> /\ reader'.new_messages = <<>>
      /\ reader'.messages = <<>> /\ reader'.received = reader.received \o reader.new_messages
      /\ reader'.buf = reader.buf /\ reader'.raised = reader.raised
  BY <1>1, <1>2 DEF FrTypes
<1>5. FrTypes'
  BY <1>1, <1>2, <1>3, <1>4 DEF FrTypes
<1>6. Parsed' = Parsed
  BY <1>1, <1>3, <1>4, ConcatEmptySeq DEF Parsed
<1>7. Coming' = Coming
  BY <1>1, <1>2, <1>4 DEF Coming
<1>8. ~reader.raised => ~FrameThere
  BY <1>1 DEF FrInv
<1> QED
  BY <1>1, <1>2, <1>4, <1>5, <1>6, <1>7, <1>8, SameHolds

ComingParts ==
  /\ Coming \in Seq(Pieces) /\ Len(Coming) \in Nat
  /\ Len(Coming) = Len(reader.drained) + (Len(stream.buffer) + Len(stream.wire))
  /\ \A i \in 1..Len(Coming) :
       Coming[i] = IF i <= Len(reader.drained) THEN reader.drained[i]
                   ELSE (stream.buffer \o stream.wire)[i - Len(reader.drained)]

LEMMA ComingAt == FrTypes => ComingParts
<1> SUFFICES ASSUME FrTypes PROVE ComingParts
  OBVIOUS
<1> DEFINE d == reader.drained
           b == stream.buffer
           w == stream.wire
           r == b \o w
<1>1. d \in Seq(Pieces) /\ b \in Seq(Pieces) /\ w \in Seq(Pieces)
  BY Fields
<1>2. Coming = (d \o b) \o w
  BY DEF Coming
<1> HIDE DEF d, b, w
<1>3. Coming = d \o r
  <2>1. Regroups(d, b, w)
    BY <1>1, Regrouped
  <2> QED
    BY <1>2, <2>1 DEF Regroups
<1>4. r \in Seq(Pieces) /\ Len(r) = Len(b) + Len(w) /\ Len(r) \in Nat /\ Len(d) \in Nat
  BY <1>1, ConcatProperties
<1> HIDE DEF r
<1>5. /\ Coming \in Seq(Pieces) /\ Len(Coming) = Len(d) + Len(r)
      /\ \A i \in 1..Len(Coming) : Coming[i] = IF i <= Len(d) THEN d[i] ELSE r[i - Len(d)]
  <2>1. \A x, y \in Seq(Pieces) :
          /\ x \o y \in Seq(Pieces) /\ Len(x \o y) = Len(x) + Len(y)
          /\ \A i \in 1..Len(x) + Len(y) : (x \o y)[i] = IF i <= Len(x) THEN x[i] ELSE y[i - Len(x)]
    BY ConcatProperties
  <2>2. /\ d \o r \in Seq(Pieces) /\ Len(d \o r) = Len(d) + Len(r)
        /\ \A i \in 1..Len(d) + Len(r) : (d \o r)[i] = IF i <= Len(d) THEN d[i] ELSE r[i - Len(d)]
    BY <1>1, <1>4, <2>1, Zenon
  <2> QED
    BY <1>3, <2>2, Zenon
<1>6. Len(Coming) \in Nat /\ Len(Coming) = Len(d) + (Len(b) + Len(w))
  BY <1>4, <1>5
<1> QED
  BY <1>5, <1>6 DEF d, b, w, r, ComingParts

\* The first n pieces are gone.
LEMMA Drops ==
  ASSUME FrTypes, FrTypes', stream' = stream, NEW n \in 0..Len(reader.drained),
         Len(reader'.drained) = Len(reader.drained) - n,
         \A i \in 1..Len(reader'.drained) : reader'.drained[i] = reader.drained[i + n]
  PROVE  /\ Coming' \in Seq(Pieces) /\ Coming \in Seq(Pieces)
         /\ n \in 0..Len(Coming) /\ Len(Coming') = Len(Coming) - n
         /\ \A i \in 1..Len(Coming') : Coming'[i] = Coming[i + n]
         /\ reader.drained # <<>> => Coming[1] = reader.drained[1] /\ Len(Coming) >= 1
<1> DEFINE r == stream.buffer \o stream.wire
           m == Len(stream.buffer) + Len(stream.wire)
           d == reader.drained
           e == reader'.drained
<1>1. ComingParts /\ ComingParts'
  BY ComingAt, PTL
<1>2. m \in Nat /\ Len(d) \in Nat /\ Len(e) \in Nat /\ Len(e) = Len(d) - n /\ (d # <<>> => Len(d) >= 1)
  <2>1. stream.buffer \in Seq(Pieces) /\ stream.wire \in Seq(Pieces) /\ d \in Seq(Pieces)
    BY Fields
  <2>2. Len(stream.buffer) \in Nat /\ Len(stream.wire) \in Nat /\ Len(d) \in Nat /\ (d # <<>> => Len(d) >= 1)
    BY <2>1, LenProperties, EmptySeq
  <2>3. Len(e) = Len(d) - n /\ n \in 0..Len(d)
    OBVIOUS
  <2>4. m \in Nat
    <3>1. \A x, y \in Nat : x + y \in Nat
      OBVIOUS
    <3> QED
      BY <2>2, <3>1, Zenon
  <2>5. Len(e) \in Nat
    BY <2>2, <2>3
  <2> HIDE DEF d, e, m
  <2> QED
    BY <2>2, <2>3, <2>4, <2>5
<1>3. /\ Coming \in Seq(Pieces) /\ Len(Coming) \in Nat /\ Len(Coming) = Len(d) + m
      /\ \A i \in 1..Len(Coming) : Coming[i] = IF i <= Len(d) THEN d[i] ELSE r[i - Len(d)]
  BY <1>1 DEF ComingParts
<1>4. /\ Coming' \in Seq(Pieces) /\ Len(Coming') \in Nat /\ Len(Coming') = Len(e) + m
      /\ \A i \in 1..Len(Coming') : Coming'[i] = IF i <= Len(e) THEN e[i] ELSE r[i - Len(e)]
  BY <1>1 DEF ComingParts
<1>5. \A i \in 1..Len(e) : e[i] = d[i + n]
  OBVIOUS
<1> HIDE DEF r, m, d, e
<1>6. n \in 0..Len(Coming) /\ Len(Coming') = Len(Coming) - n
  BY <1>2, <1>3, <1>4
<1>7. \A i \in 1..Len(Coming') : Coming'[i] = Coming[i + n]
  <2> SUFFICES ASSUME NEW i \in 1..Len(Coming') PROVE Coming'[i] = Coming[i + n]
    OBVIOUS
  <2>1. i + n \in 1..Len(Coming) /\ (i <= Len(e) <=> i + n <= Len(d)) /\ i + n - Len(d) = i - Len(e)
    BY <1>2, <1>3, <1>4, <1>6
  <2>2. CASE i <= Len(e)
    BY <2>1, <2>2, <1>2, <1>3, <1>4, <1>5
  <2>3. CASE ~(i <= Len(e))
    <3>1. Coming'[i] = r[i - Len(e)]
      BY <2>3, <1>2, <1>4
    <3>2. Coming[i + n] = r[i + n - Len(d)]
      BY <2>1, <2>3, <1>2, <1>3
    <3> QED
      BY <2>1, <3>1, <3>2
  <2> QED
    BY <2>2, <2>3
<1>8. d # <<>> => Coming[1] = d[1] /\ Len(Coming) >= 1
  BY <1>2, <1>3
<1> QED
  BY <1>3, <1>4, <1>6, <1>7, <1>8 DEF d

LEMMA SuffixChained ==
  ASSUME NEW cs \in Seq(Pieces), NEW es \in Seq(Pieces), NEW n \in 0..Len(cs), Chained(cs),
         Len(es) = Len(cs) - n, \A i \in 1..Len(es) : es[i] = cs[i + n]
  PROVE  Chained(es)
<1>1. \A i \in 1..Len(es) : i + n \in 1..Len(cs) /\ es[i] = cs[i + n]
  OBVIOUS
<1>2. \A i \in 1..Len(es) : IsChunk(es[i])
  BY <1>1 DEF Chained
<1>3. \A i \in 1..Len(es) : i < Len(es) => es[i + 1][1] = NextByte(LastOf(es[i]))
  <2> SUFFICES ASSUME NEW i \in 1..Len(es), i < Len(es) PROVE es[i + 1][1] = NextByte(LastOf(es[i]))
    OBVIOUS
  <2>1. i + 1 \in 1..Len(es) /\ i + 1 + n = (i + n) + 1 /\ i + n < Len(cs)
    OBVIOUS
  <2>2. es[i] = cs[i + n] /\ es[i + 1] = cs[(i + n) + 1] /\ i + n \in 1..Len(cs)
    BY <1>1, <2>1
  <2>3. cs[(i + n) + 1][1] = NextByte(LastOf(cs[i + n]))
    BY <2>1, <2>2 DEF Chained
  <2> QED
    BY <2>2, <2>3
<1>4. es # <<>> => NextByte(LastOf(LastOf(es))) = End
  <2>1. es # <<>> => Len(es) \in 1..Len(es) /\ Len(es) + n = Len(cs) /\ cs # <<>>
    BY EmptySeq
  <2>2. es # <<>> => LastOf(es) = LastOf(cs)
    BY <1>1, <2>1 DEF LastOf
  <2> QED
    BY <2>1, <2>2 DEF Chained
<1> QED
  BY <1>2, <1>3, <1>4 DEF Chained

LEMMA SizeType ==
  ASSUME FrTypes, NEW n \in DOMAIN sender.sent
  PROVE  Size(n) \in Nat /\ Size(n) >= 1 /\ Size(n) >= LengthSize /\ LengthSize \in Nat
<1>1. sender.sent[n].length \in 0..MaxLength + 1
  BY Fields DEF Frames
<1> QED
  BY <1>1, FramingAssumption DEF Size

\* A chunk that follows what is there.
LEMMA RunGrows ==
  ASSUME FrTypes, NEW s \in Pieces, NEW c \in Pieces, Run(s), IsChunk(c), \A i \in 1..Len(s) : Sent(s[i]),
         s # <<>> => c[1] = NextByte(LastOf(s))
  PROVE  /\ s \o c \in Pieces /\ Run(s \o c) /\ \A i \in 1..Len(s \o c) : Sent((s \o c)[i])
         /\ s \o c # <<>> /\ LastOf(s \o c) = LastOf(c) /\ (s \o c)[1] = IF s = <<>> THEN c[1] ELSE s[1]
<1> DEFINE t == s \o c
           m == c[1][1]
           a == c[1][2]
<1>0. s \in Seq(Nat \X Nat) /\ c \in Seq(Nat \X Nat) /\ c # <<>>
  BY DEF Pieces, IsChunk
<1>a. /\ Len(s) \in Nat /\ Len(c) \in Nat \ {0} /\ DOMAIN c = 1..Len(c) /\ (s = <<>> <=> Len(s) = 0)
      /\ \A i \in 1..Len(s) : s[i] \in Nat \X Nat
      /\ \A k \in 1..Len(c) : c[k] \in Nat \X Nat
  <2>1. Len(s) \in Nat /\ Len(c) \in Nat \ {0} /\ DOMAIN c = 1..Len(c)
    BY <1>0, EmptySeq, LenProperties
  <2>2. s = <<>> <=> Len(s) = 0
    BY <1>0, EmptySeq
  <2>3. /\ \A i \in 1..Len(s) : s[i] \in Nat \X Nat
        /\ \A k \in 1..Len(c) : c[k] \in Nat \X Nat
    BY <1>0, ElementOfSeq
  <2> QED
    BY <2>1, <2>2, <2>3
<1>b. m \in DOMAIN sender.sent /\ a \in Nat /\ a >= 1 /\ a + Len(c) - 1 <= Size(m)
  BY <1>a DEF IsChunk
<1>c. \A k \in 1..Len(c) : c[k] = <<m, a + k - 1>>
  BY <1>a DEF IsChunk
<1>1. /\ Len(s) \in Nat /\ Len(c) \in Nat \ {0} /\ DOMAIN c = 1..Len(c) /\ (s = <<>> <=> Len(s) = 0)
      /\ \A i \in 1..Len(s) : s[i] \in Nat \X Nat
      /\ \A k \in 1..Len(c) : c[k] \in Nat \X Nat /\ c[k] = <<m, a + k - 1>>
      /\ m \in DOMAIN sender.sent /\ a \in Nat /\ a >= 1 /\ a + Len(c) - 1 <= Size(m)
  BY <1>a, <1>b, <1>c
<1>2. /\ t \in Pieces /\ Len(t) = Len(s) + Len(c)
      /\ \A i \in 1..Len(t) : t[i] = IF i <= Len(s) THEN s[i] ELSE c[i - Len(s)]
  BY ConcatProperties DEF Pieces
<1>3. Size(m) \in Nat
  BY <1>1, SizeType
<1> HIDE DEF t, m, a
<1>4. \A i \in 1..Len(t) : Sent(t[i])
  <2> SUFFICES ASSUME NEW i \in 1..Len(t) PROVE Sent(t[i])
    OBVIOUS
  <2>1. CASE i <= Len(s)
    BY <2>1, <1>1, <1>2
  <2>2. CASE ~(i <= Len(s))
    <3>1. i - Len(s) \in 1..Len(c) /\ t[i] = c[i - Len(s)]
      BY <2>2, <1>1, <1>2
    <3>2. t[i] = <<m, a + (i - Len(s)) - 1>>
      BY <3>1, <1>1
    <3>3. a + (i - Len(s)) - 1 \in 1..Size(m)
      BY <3>1, <1>1, <1>3
    <3> QED
      BY <3>2, <3>3, <1>1 DEF Sent
  <2> QED
    BY <2>1, <2>2
<1>5. Run(t)
  <2> SUFFICES ASSUME NEW i \in 1..Len(t), NEW j \in 1..Len(t), i <= j
               PROVE  /\ t[i][2] + (j - i) <= Size(t[i][1]) => t[j] = <<t[i][1], t[i][2] + (j - i)>>
                      /\ t[i][2] + (j - i) = Size(t[i][1]) + 1 => t[j] = <<t[i][1] + 1, 1>>
    BY DEF Run
  <2>1. CASE j <= Len(s)
    <3>1. i \in 1..Len(s) /\ j \in 1..Len(s) /\ t[i] = s[i] /\ t[j] = s[j]
      BY <2>1, <1>1, <1>2
    <3> QED
      BY <3>1 DEF Run
  <2>2. CASE ~(i <= Len(s))
    <3> DEFINE k == i - Len(s)
               l == j - Len(s)
    <3>1. k \in 1..Len(c) /\ l \in 1..Len(c) /\ t[i] = c[k] /\ t[j] = c[l] /\ j - i = l - k
      BY <2>2, <1>1, <1>2
    <3>2. t[i] = <<m, a + k - 1>> /\ t[j] = <<m, a + l - 1>>
      BY <3>1, <1>1
    <3>3. t[i][1] = m /\ t[i][2] = a + k - 1
      BY <3>2
    <3> HIDE DEF k, l
    <3> QED
      BY <3>1, <3>2, <3>3, <1>1, <1>3
  <2>3. CASE i <= Len(s) /\ ~(j <= Len(s))
    <3> DEFINE L == Len(s)
               l == j - L
               n == s[i][1]
               p == s[i][2]
    <3>0. L \in Nat /\ i \in Nat /\ j \in Nat /\ l \in Int
      BY <1>1
    <3>1. i \in 1..L /\ L \in 1..L /\ i <= L /\ l \in 1..Len(c) /\ t[i] = s[i] /\ t[j] = c[l] /\ j = L + l
      BY <2>3, <1>1, <1>2
    <3>2. t[j] = <<m, a + l - 1>> /\ n \in Nat /\ p \in Nat /\ n \in DOMAIN sender.sent /\ Size(n) \in Nat
      BY <3>1, <1>1, SizeType DEF Sent
    <3>3. /\ p + (L - i) <= Size(n) => s[L] = <<n, p + (L - i)>>
      BY <3>1 DEF Run
    <3>4. c[1] = NextByte(s[L]) /\ m = c[1][1] /\ a = c[1][2]
      BY <3>1, <1>1 DEF LastOf, m, a
    <3>5. p + (L - i) < Size(n) => m = n /\ a = p + (L - i) + 1
      <4>1. p + (L - i) < Size(n) => NextByte(s[L]) = <<n, p + (L - i) + 1>>
        <5>1. p + (L - i) < Size(n) => s[L][1] = n /\ s[L][2] = p + (L - i) /\ s[L][2] < Size(s[L][1])
          BY <3>2, <3>3
        <5> HIDE DEF n, p, L
        <5> QED
          BY <5>1, <3>2 DEF NextByte, Size
      <4> QED
        BY <3>4, <4>1
    <3>6. p + (L - i) = Size(n) => m = n + 1 /\ a = 1
      <4>1. p + (L - i) = Size(n) => NextByte(s[L]) = <<n + 1, 1>>
        <5>1. p + (L - i) = Size(n) => s[L][1] = n /\ s[L][2] = Size(n)
          BY <3>2, <3>3
        <5> HIDE DEF n, p, L
        <5> QED
          BY <5>1, <3>2 DEF NextByte, Size
      <4> QED
        BY <3>4, <4>1
    <3>7. t[i][1] = n /\ t[i][2] = p
      BY <3>1
    <3> HIDE DEF l, n, p, L
    <3>8. ASSUME p + (j - i) <= Size(n) PROVE t[j] = <<n, p + (j - i)>>
      <4>1. p + (L - i) < Size(n) /\ L \in Nat
        BY <3>0, <3>1, <3>2, <3>8
      <4>2. a + l - 1 = p + (j - i)
        BY <4>1, <3>0, <3>1, <3>2, <3>5
      <4> QED
        BY <4>1, <4>2, <3>2, <3>5
    <3>9. ASSUME p + (j - i) = Size(n) + 1 PROVE t[j] = <<n + 1, 1>>
      <4>1. L \in Nat /\ l \in Nat /\ l >= 1 /\ p + (L - i) = Size(n) + 1 - l
        <5>1. l \in Nat /\ l >= 1 /\ j = L + l /\ Size(n) \in Nat /\ p \in Nat
          BY <3>1, <3>2, <1>1
        <5> QED
          BY <5>1, <3>0, <3>9
      <4>2. CASE l = 1
        BY <4>1, <4>2, <3>2, <3>6
      <4>3. CASE l > 1
        <5>1. m = n /\ a = p + (L - i) + 1
          BY <4>1, <4>3, <3>2, <3>5
        <5>2. a + l - 1 = Size(n) + 1
          BY <5>1, <4>1, <3>0, <3>2
        <5>3. l <= Len(c)
          BY <3>0, <3>1, <1>1
        <5>4. a + Len(c) - 1 <= Size(n) /\ a \in Nat /\ Len(c) \in Nat
          BY <5>1, <1>1, <1>3
        <5> QED
          BY <5>2, <5>3, <5>4, <3>2, <4>1
      <4> QED
        BY <4>1, <4>2, <4>3
    <3> QED
      BY <3>7, <3>8, <3>9
  <2> QED
    BY <2>1, <2>2, <2>3
<1>6. t # <<>> /\ LastOf(t) = LastOf(c) /\ t[1] = IF s = <<>> THEN c[1] ELSE s[1]
  <2>1. Len(t) \in 1..Len(t) /\ ~(Len(t) <= Len(s)) /\ Len(t) - Len(s) = Len(c) /\ 1 \in 1..Len(t)
    BY <1>1, <1>2
  <2>2. t # <<>>
    BY <2>1, <1>2, EmptySeq DEF Pieces
  <2>3. LastOf(t) = LastOf(c)
    BY <2>1, <1>2 DEF LastOf
  <2>4. t[1] = IF s = <<>> THEN c[1] ELSE s[1]
    BY <2>1, <1>1, <1>2
  <2> QED
    BY <2>2, <2>3, <2>4
<1> QED
  BY <1>2, <1>4, <1>5, <1>6 DEF t

LEMMA FeedBeginsHolds ==
  ASSUME FrInv, FeedBegins
  PROVE  FrInv'
<1> DEFINE c == Head(reader.drained)
           rest == Tail(reader.drained)
           t == reader.buf \o c
<1>1. FrTypes /\ reader.pc = "pump" /\ reader.drained # <<>> /\ reader.messages = <<>>
  BY DEF FrInv, FrTypes, FeedBegins
<1>2. /\ reader' = [reader EXCEPT !.pc = "feed", !.drained = rest, !.buf = t, !.messages = <<>>]
      /\ sender' = sender /\ stream' = stream /\ max_payload' = max_payload
  BY DEF FeedBegins
<1>3. /\ c \in Pieces /\ rest \in Seq(Pieces) /\ c = reader.drained[1] /\ Len(rest) = Len(reader.drained) - 1
      /\ \A i \in 1..Len(rest) : rest[i] = reader.drained[i + 1] /\ Len(reader.drained) \in Nat \ {0}
  <2>1. reader.drained \in Seq(Pieces)
    BY <1>1 DEF FrTypes
  <2> QED
    BY <1>1, <2>1, HeadTailProperties, EmptySeq
<1> HIDE DEF c, rest
<1>4. reader.buf \in Pieces /\ t \in Pieces
  <2>1. reader.buf \in Seq(Nat \X Nat) /\ c \in Seq(Nat \X Nat)
    BY <1>1, <1>3 DEF FrTypes, Pieces
  <2> QED
    BY <2>1, ConcatProperties DEF Pieces
<1> HIDE DEF t
<1>5. /\ reader'.pc = "feed" /\ reader'.drained = rest /\ reader'.new_messages = reader.new_messages
      /\ reader'.messages = <<>> /\ reader'.received = reader.received
      /\ reader'.buf = t /\ reader'.raised = reader.raised
  BY <1>1, <1>2 DEF FrTypes
<1>6. FrTypes'
  BY <1>1, <1>2, <1>3, <1>4, <1>5 DEF FrTypes
<1>7. /\ Coming \in Seq(Pieces) /\ Coming' \in Seq(Pieces) /\ Len(Coming) \in Nat \ {0} /\ Len(Coming') = Len(Coming) - 1
      /\ \A i \in 1..Len(Coming') : Coming'[i] = Coming[i + 1]
      /\ Coming[1] = c
  <2>1. 1 \in 0..Len(reader.drained) /\ Len(reader'.drained) = Len(reader.drained) - 1
        /\ \A i \in 1..Len(reader'.drained) : reader'.drained[i] = reader.drained[i + 1]
    BY <1>3, <1>5
  <2>2. /\ Coming' \in Seq(Pieces) /\ Coming \in Seq(Pieces)
        /\ 1 \in 0..Len(Coming) /\ Len(Coming') = Len(Coming) - 1
        /\ \A i \in 1..Len(Coming') : Coming'[i] = Coming[i + 1]
        /\ reader.drained # <<>> => Coming[1] = reader.drained[1] /\ Len(Coming) >= 1
    BY <1>1, <1>2, <1>6, <2>1, Drops
  <2> HIDE DEF Coming
  <2> QED
    BY <1>1, <1>3, <2>2, LenProperties
<1>8. Chained(Coming)'
  <2>1. Chained(Coming')
    <3>1. 1 \in 0..Len(Coming) /\ Chained(Coming)
      BY <1>7 DEF FrInv
    <3> QED
      BY <1>7, <3>1, SuffixChained
  <2> QED
    BY <1>2, <2>1 DEF Chained, IsChunk, NextByte, Size, LastOf, End
<1>9. IsChunk(c)
  BY <1>7 DEF FrInv, Chained
<1>10. Parsed' = Parsed
  BY <1>1, <1>5 DEF Parsed
<1>11. ParsedInv' /\ IdsInv'
  BY <1>2, <1>10 DEF FrInv, ParsedInv, IdsInv
<1>12. \A i \in 1..Len(t) : Sent(t[i])
  <2>1. /\ reader.buf \in Seq(Nat \X Nat) /\ c \in Seq(Nat \X Nat) /\ c # <<>>
    BY <1>3, <1>4, <1>9 DEF Pieces, IsChunk
  <2>2. /\ Len(reader.buf) \in Nat /\ Len(c) \in Nat /\ DOMAIN c = 1..Len(c) /\ Len(c) >= 1 /\ c[1] \in Nat \X Nat
    BY <2>1, LenProperties, EmptySeq, ElementOfSeq
  <2>3. /\ Len(t) = Len(reader.buf) + Len(c)
        /\ \A i \in 1..Len(t) : t[i] = IF i <= Len(reader.buf) THEN reader.buf[i] ELSE c[i - Len(reader.buf)]
    BY <2>1, ConcatProperties DEF t
  <2>4. \A k \in 1..Len(c) : Sent(c[k])
    <3> SUFFICES ASSUME NEW k \in 1..Len(c) PROVE Sent(c[k])
      OBVIOUS
    <3>1. c[k] = <<c[1][1], c[1][2] + k - 1>> /\ c[1][1] \in DOMAIN sender.sent /\ c[1][2] >= 1
          /\ c[1][2] + Len(c) - 1 <= Size(c[1][1]) /\ c[1][2] \in Nat /\ Size(c[1][1]) \in Nat
      BY <1>1, <1>9, <2>2, SizeType DEF IsChunk
    <3>2. c[1][2] + k - 1 \in 1..Size(c[1][1])
      BY <2>2, <3>1
    <3> QED
      BY <3>1, <3>2 DEF Sent
  <2>5. \A i \in 1..Len(reader.buf) : Sent(reader.buf[i])
    BY DEF FrInv, BufSent
  <2> SUFFICES ASSUME NEW i \in 1..Len(t) PROVE Sent(t[i])
    OBVIOUS
  <2>6. CASE i <= Len(reader.buf)
    BY <2>2, <2>3, <2>5, <2>6
  <2>7. CASE ~(i <= Len(reader.buf))
    <3>1. i - Len(reader.buf) \in 1..Len(c)
      BY <2>2, <2>3, <2>7
    <3> QED
      BY <2>3, <2>4, <2>7, <3>1
  <2> QED
    BY <2>6, <2>7
<1>13. BufSent'
  BY <1>2, <1>5, <1>12 DEF BufSent, Sent, Size
<1>14. CASE ~reader.raised
  <2>1. Linked
    BY <1>14 DEF FrInv
  <2>2. c[1] = Due /\ Run(reader.buf) /\ (reader.buf # <<>> => c[1] = NextByte(LastOf(reader.buf)))
        /\ (reader.buf = <<>> => c[1] = <<Len(Parsed) + 1, 1>>)
    <3>1. Coming # <<>>
      BY <1>7, EmptySeq
    <3> QED
      BY <2>1, <1>7, <3>1 DEF Linked, Due
  <2>3. /\ Run(t) /\ t # <<>> /\ LastOf(t) = LastOf(c) /\ t[1] = IF reader.buf = <<>> THEN c[1] ELSE reader.buf[1]
    BY <1>1, <1>3, <1>4, <1>9, <2>2, RunGrows DEF t, FrInv, BufSent
  <2>4. t[1] = <<Len(Parsed) + 1, 1>>
    BY <2>1, <2>2, <2>3 DEF Linked
  <2>5. IF Coming' = <<>> THEN NextByte(LastOf(t)) = End ELSE Coming'[1][1] = NextByte(LastOf(t))
    <3>1. CASE Coming' = <<>>
      <4>1. Len(Coming) = 1
        BY <1>7, <3>1, EmptySeq
      <4>2. LastOf(Coming) = c /\ Coming # <<>>
        BY <1>7, <4>1, EmptySeq DEF LastOf
      <4> QED
        BY <2>3, <3>1, <4>2 DEF FrInv, Chained
    <3>2. CASE Coming' # <<>>
      <4>1. 1 \in 1..Len(Coming) /\ 1 < Len(Coming) /\ Coming'[1] = Coming[2] /\ 1 + 1 = 2
        BY <1>7, <3>2, EmptySeq
      <4>2. Coming[2][1] = NextByte(LastOf(Coming[1]))
        BY <4>1 DEF FrInv, Chained
      <4> QED
        BY <1>7, <2>3, <3>2, <4>1, <4>2
    <3> QED
      BY <3>1, <3>2
  <2>6. Linked'
    <3>1. (\A n : Size(n)' = Size(n)) /\ (\A x : NextByte(x)' = NextByte(x)) /\ End' = End
      BY <1>2 DEF Size, NextByte, End
    <3>2. Run(reader.buf)'
      BY <1>5, <2>3, <3>1 DEF Run
    <3>3. Due' = NextByte(LastOf(c))
      BY <1>5, <2>3, <3>1 DEF Due, LastOf
    <3> QED
      BY <1>5, <1>10, <2>3, <2>4, <2>5, <3>1, <3>2, <3>3 DEF Linked
  <2> QED
    BY <1>5, <1>6, <1>8, <1>11, <1>13, <1>14, <2>6 DEF FrInv
<1>15. CASE reader.raised
  <2>1. Stuck
    BY <1>15 DEF FrInv
  <2>2. Len(reader.buf) >= LengthSize /\ Len(reader.buf) \in Nat /\ LengthSize >= 1 /\ reader.buf # <<>> /\ LengthSize \in Nat
    <3>1. Len(reader.buf) >= LengthSize /\ Len(reader.buf) \in Nat /\ LengthSize >= 1 /\ LengthSize \in Nat
      BY <1>1, <2>1, Fields, FramingAssumption DEF Stuck, LengthKnown
    <3> QED
      BY <3>1
  <2>3. Len(t) >= Len(reader.buf) /\ t[1] = reader.buf[1] /\ Len(t) \in Nat
    <3>1. reader.buf \in Seq(Nat \X Nat) /\ c \in Seq(Nat \X Nat)
      BY <1>3, <1>4 DEF Pieces
    <3>2. Len(t) = Len(reader.buf) + Len(c) /\ Len(c) \in Nat
      BY <3>1, ConcatProperties, LenProperties DEF t
    <3>3. t[1] = reader.buf[1]
      BY <2>2, <3>1, <3>2, ConcatProperties DEF t
    <3> QED
      BY <2>2, <3>2, <3>3
  <2>4. HeadFrame' = HeadFrame
    BY <1>2, <1>5, <2>3 DEF HeadFrame
  <2>5. (LengthBad' <=> LengthBad) /\ FrameEnd' = FrameEnd
    BY <2>4 DEF LengthBad, FrameEnd
  <2>6. HeadFrame.length \in Nat
    <3>1. Sent(reader.buf[1])
      BY <2>2 DEF FrInv, BufSent
    <3>2. sender.sent[reader.buf[1][1]] \in Frames
      BY <1>1, <3>1, Fields DEF Sent
    <3> QED
      BY <3>2, FramingAssumption DEF HeadFrame, Frames
  <2>7. FrameThere => FrameThere'
    BY <1>5, <2>2, <2>3, <2>5, <2>6 DEF FrameThere, LengthKnown, FrameEnd
  <2>8. Stuck'
    BY <1>5, <2>1, <2>2, <2>3, <2>4, <2>5, <2>7 DEF Stuck, LengthKnown
  <2> QED
    BY <1>5, <1>6, <1>8, <1>11, <1>13, <1>15, <2>8 DEF FrInv
<1> QED
  BY <1>14, <1>15

LEMMA FeedRaisesHolds ==
  ASSUME FrInv, FeedRaises
  PROVE  FrInv'
<1>1. FrTypes /\ LengthKnown /\ (LengthBad \/ (FrameThere /\ ~HeadFrame.parses))
  BY DEF FrInv, FeedRaises
<1>2. /\ reader' = [reader EXCEPT !.pc = "idle", !.drained = <<>>, !.messages = <<>>, !.new_messages = <<>>, !.raised = TRUE]
      /\ sender' = sender /\ stream' = stream /\ max_payload' = max_payload
  BY DEF FeedRaises
<1>3. /\ reader'.pc = "idle" /\ reader'.drained = <<>> /\ reader'.new_messages = <<>>
      /\ reader'.messages = <<>> /\ reader'.received = reader.received
      /\ reader'.buf = reader.buf /\ reader'.raised
  BY <1>1, <1>2 DEF FrTypes
<1>4. FrTypes'
  <2>1. <<>> \in Seq(Pieces) /\ <<>> \in Seq(Frames)
    OBVIOUS
  <2> QED
    BY <1>1, <1>2, <1>3, <2>1 DEF FrTypes
<1>5. Chained(Coming)'
  <2> DEFINE n == Len(reader.drained)
  <2>1. n \in 0..Len(reader.drained) /\ Len(reader'.drained) = Len(reader.drained) - n
        /\ \A i \in 1..Len(reader'.drained) : reader'.drained[i] = reader.drained[i + n]
    BY <1>1, <1>3, Fields, LenProperties, EmptySeq
  <2> HIDE DEF n
  <2>6. Chained(Coming)
    BY DEF FrInv
  <2>7. /\ Coming' \in Seq(Pieces) /\ Coming \in Seq(Pieces) /\ n \in 0..Len(Coming) /\ Len(Coming') = Len(Coming) - n
        /\ \A i \in 1..Len(Coming') : Coming'[i] = Coming[i + n]
    BY <1>1, <1>2, <1>4, <2>1, Drops
  <2>9. Chained(Coming')
    BY <2>6, <2>7, SuffixChained
  <2> QED
    BY <1>2, <2>9 DEF Chained, IsChunk, NextByte, Size, LastOf, End
<1>6. ParsedInv' /\ IdsInv'
  <2>1. /\ reader.received \in Seq(Frames) /\ reader.new_messages \in Seq(Frames) /\ reader.messages \in Seq(Frames)
    BY <1>1, Fields
  <2>2. Parsed' = reader.received
    BY <1>3, <2>1, ConcatEmptySeq DEF Parsed
  <2>3. /\ Parsed = reader.received \o (reader.new_messages \o reader.messages)
    <3>1. Regroups(reader.received, reader.new_messages, reader.messages)
      BY <2>1, Regrouped
    <3> QED
      BY <3>1 DEF Parsed, Regroups
  <2>4. reader.new_messages \o reader.messages \in Seq(Frames)
    BY <2>1, ConcatProperties
  <2>5. Len(Parsed) >= Len(reader.received) /\ Len(Parsed) \in Nat /\ Len(reader.received) \in Nat
        /\ \A i \in 1..Len(reader.received) : Parsed[i] = reader.received[i]
    <3> DEFINE u == reader.new_messages \o reader.messages
    <3>1. u \in Seq(Frames) /\ Parsed = reader.received \o u
      BY <2>3, <2>4
    <3> HIDE DEF u
    <3> QED
      BY <2>1, <3>1, ConcatProperties
  <2>6. Len(sender.sent) \in Nat
    BY <1>1, Fields
  <2> QED
    BY <1>2, <2>2, <2>5, <2>6 DEF FrInv, ParsedInv, IdsInv
<1>7. BufSent'
  BY <1>2, <1>3 DEF FrInv, BufSent, Sent, Size
<1>8. Stuck'
  BY <1>1, <1>2, <1>3 DEF Stuck, LengthKnown, LengthBad, FrameThere, FrameEnd, HeadFrame
<1> QED
  BY <1>3, <1>4, <1>5, <1>6, <1>7, <1>8 DEF FrInv

\* How many chunks there are.
Count(size, p) == (size + p - 1) \div p

LEMMA Ceiling ==
  ASSUME NEW size \in Nat \ {0}, NEW p \in Nat \ {0}, NEW m, m = Count(size, p)
  PROVE  /\ m \in Nat \ {0} /\ size <= m * p /\ (m - 1) * p < size
         /\ \A i \in 1..m : /\ (i - 1) * p \in Nat /\ (i - 1) * p < size /\ i * p = (i - 1) * p + p
                            /\ i < m => i * p < size
<1>1. m \in Int /\ m * p <= size + p - 1 /\ size + p - 1 < (m + 1) * p
  BY DEF Count
<1>2. (m + 1) * p = m * p + p /\ (m - 1) * p = m * p - p /\ m * p \in Int
  BY <1>1
<1>3. size <= m * p /\ (m - 1) * p < size
  BY <1>1, <1>2
<1>4. m >= 1
  <2>1. m <= 0 => m * p <= 0
    BY <1>1
  <2> QED
    BY <1>1, <1>3, <2>1
<1>5. ASSUME NEW i \in 1..m
      PROVE  /\ (i - 1) * p \in Nat /\ (i - 1) * p < size /\ i * p = (i - 1) * p + p
             /\ i < m => i * p < size
  <2>1. (i - 1) * p \in Nat /\ i * p = (i - 1) * p + p
    BY <1>1
  <2>2. (i - 1) * p <= (m - 1) * p
    BY <1>1
  <2>3. i < m => i * p <= (m - 1) * p
    BY <1>1
  <2>4. (m - 1) * p \in Int /\ i * p \in Int
    BY <1>1
  <2> QED
    BY <1>3, <2>1, <2>2, <2>3, <2>4
<1> QED
  BY <1>1, <1>3, <1>4, <1>5

\* The pieces hold the bytes of frame n, from the first to the last.
Cuts(cs, n, size) ==
  /\ cs \in Seq(Pieces) /\ Len(cs) \in Nat \ {0}
  /\ \A i \in 1..Len(cs) :
       /\ Len(cs[i]) \in Nat \ {0} /\ DOMAIN cs[i] = 1..Len(cs[i])
       /\ \E start \in Nat :
            /\ \A k \in 1..Len(cs[i]) : cs[i][k] = <<n, start + k>>
            /\ i = 1 => start = 0
            /\ start + Len(cs[i]) <= size
            /\ i < Len(cs) => start + Len(cs[i]) < size /\ cs[i + 1][1] = <<n, start + Len(cs[i]) + 1>>
            /\ i = Len(cs) => start + Len(cs[i]) = size

LEMMA ChunksAre ==
  ASSUME FrTypes, NEW n \in Nat, NEW length \in Nat
  PROVE  Cuts(Chunks(n, length), n, LengthSize + length)
<1> DEFINE cs == Chunks(n, length)
           p == max_payload
           size == LengthSize + length
           m == Count(size, p)
           len(i) == IF (i - 1) * p + p > size THEN size - (i - 1) * p ELSE p
           piece(i) == [k \in 1..len(i) |-> <<n, (i - 1) * p + k>>]
<1>1. p \in Nat \ {0} /\ size \in Nat \ {0}
  BY FramingAssumption DEF FrTypes
<1>2. cs = [i \in 1..m |-> piece(i)]
  BY DEF Chunks, Count
<1> HIDE DEF p, size, cs
<1>3. /\ m \in Nat \ {0} /\ size <= m * p
      /\ \A i \in 1..m : /\ (i - 1) * p \in Nat /\ (i - 1) * p < size /\ i * p = (i - 1) * p + p
                         /\ i < m => i * p < size
  BY <1>1, Ceiling
<1> HIDE DEF m
<1>4. ASSUME NEW i \in 1..m
      PROVE  /\ len(i) \in Nat \ {0} /\ (i - 1) * p + len(i) <= size
             /\ i < m => (i - 1) * p + len(i) < size /\ (i - 1) * p + len(i) = i * p
             /\ i = m => (i - 1) * p + len(i) = size
  <2> DEFINE start == (i - 1) * p
  <2>1. start \in Nat /\ start < size /\ i * p = start + p /\ (i < m => i * p < size) /\ (i = m => size <= i * p)
    BY <1>3
  <2>2. len(i) = IF start + p > size THEN size - start ELSE p
    OBVIOUS
  <2> DEFINE q == i * p
  <2>3. start \in Nat /\ start < size /\ q = start + p /\ (i < m => q < size) /\ (i = m => size <= q)
    BY <2>1
  <2> HIDE DEF start, q, len
  <2>4. /\ len(i) \in Nat \ {0} /\ start + len(i) <= size
        /\ i < m => start + len(i) < size /\ start + len(i) = q
        /\ i = m => start + len(i) = size
    BY <1>1, <2>2, <2>3
  <2> QED
    BY <2>4 DEF start, q
<1> HIDE DEF len
<1>5. ASSUME NEW i \in 1..m
      PROVE  /\ piece(i) \in Pieces /\ Len(piece(i)) = len(i) /\ DOMAIN piece(i) = 1..len(i)
             /\ \A k \in 1..len(i) : piece(i)[k] = <<n, (i - 1) * p + k>>
  <2> DEFINE start == (i - 1) * p
  <2>1. start \in Nat /\ len(i) \in Nat /\ piece(i) = [k \in 1..len(i) |-> <<n, start + k>>]
    BY <1>3, <1>4
  <2> HIDE DEF start, piece
  <2>2. \A k \in 1..len(i) : <<n, start + k>> \in Nat \X Nat
    BY <2>1
  <2>3. piece(i) \in Seq(Nat \X Nat) /\ Len(piece(i)) = len(i) /\ DOMAIN piece(i) = 1..len(i)
    BY <2>1, <2>2
  <2> QED
    BY <2>1, <2>3 DEF start, Pieces
<1> HIDE DEF piece
<1>6. cs \in Seq(Pieces) /\ Len(cs) = m /\ \A i \in 1..m : cs[i] = piece(i)
  BY <1>2, <1>3, <1>5
<1>7. ASSUME NEW i \in 1..m
      PROVE  /\ Len(cs[i]) \in Nat \ {0} /\ DOMAIN cs[i] = 1..Len(cs[i])
             /\ \E start \in Nat :
                   /\ \A k \in 1..Len(cs[i]) : cs[i][k] = <<n, start + k>>
                   /\ i = 1 => start = 0
                   /\ start + Len(cs[i]) <= size
                   /\ i < m => start + Len(cs[i]) < size /\ cs[i + 1][1] = <<n, start + Len(cs[i]) + 1>>
                   /\ i = m => start + Len(cs[i]) = size
  <2>1. Len(cs[i]) = len(i) /\ len(i) \in Nat \ {0} /\ DOMAIN cs[i] = 1..Len(cs[i]) /\ (i - 1) * p \in Nat
    BY <1>3, <1>4, <1>5, <1>6
  <2>2. \A k \in 1..Len(cs[i]) : cs[i][k] = <<n, (i - 1) * p + k>>
    BY <2>1, <1>5, <1>6
  <2>3. i = 1 => (i - 1) * p = 0
    BY <1>1
  <2>4. i < m => cs[i + 1][1] = <<n, (i - 1) * p + Len(cs[i]) + 1>>
    <3> SUFFICES ASSUME i < m PROVE cs[i + 1][1] = <<n, (i - 1) * p + Len(cs[i]) + 1>>
      OBVIOUS
    <3>1. i + 1 \in 1..m /\ (i + 1) - 1 = i
      BY <1>3
    <3>2. cs[i + 1][1] = <<n, i * p + 1>>
      BY <3>1, <1>4, <1>5, <1>6
    <3>3. i * p = (i - 1) * p + Len(cs[i])
      BY <2>1, <1>4
    <3> QED
      BY <3>2, <3>3
  <2>5. /\ (i - 1) * p + Len(cs[i]) <= size
        /\ i < m => (i - 1) * p + Len(cs[i]) < size
        /\ i = m => (i - 1) * p + Len(cs[i]) = size
    BY <2>1, <1>4
  <2> QED
    BY <2>1, <2>2, <2>3, <2>4, <2>5
<1> QED
  BY <1>3, <1>6, <1>7 DEF size, cs, Cuts

LEMMA TakeFrameHolds ==
  ASSUME FrInv, TakeFrame
  PROVE  FrInv'
<1> DEFINE b == reader.buf
           e == FrameEnd
           q == Delete(FrameEnd)
           h == HeadFrame
           p == Len(Parsed)
<1>1. FrTypes /\ reader.pc = "feed" /\ FrameThere /\ h.parses /\ LengthKnown /\ ~LengthBad /\ ~reader.raised
  BY DEF FrInv, TakeFrame, FrameThere, Stuck
<1>2. /\ reader' = [reader EXCEPT !.buf = q, !.messages = Append(reader.messages, h)]
      /\ sender' = sender /\ stream' = stream /\ max_payload' = max_payload
  BY DEF TakeFrame
<1>3. Run(b) /\ BufSent /\ Linked
  BY <1>1 DEF FrInv, Linked
<1>4. /\ b \in Pieces /\ Len(b) \in Nat /\ Len(b) >= 1 /\ b # <<>> /\ Len(b) >= e /\ p \in Nat /\ Parsed \in Seq(Frames)
  <2>1. b \in Pieces /\ Len(b) \in Nat /\ (b = <<>> <=> Len(b) = 0)
    BY <1>1, Fields
  <2>2. Len(b) >= LengthSize /\ LengthSize >= 1 /\ LengthSize \in Nat /\ Len(b) >= e
    BY <1>1, FramingAssumption DEF FrameThere, LengthKnown
  <2>3. p \in Nat /\ Parsed \in Seq(Frames)
    BY <1>1, ComingType, LenProperties
  <2> QED
    BY <2>1, <2>2, <2>3
<1>5. b[1] = <<p + 1, 1>>
  BY <1>3, <1>4 DEF Linked
<1>6. /\ h = sender.sent[p + 1] /\ p + 1 \in 1..Len(sender.sent) /\ h \in Frames /\ e = Size(p + 1) /\ e \in Nat /\ e >= 1
  <2>1. b[1][1] = p + 1
    BY <1>5
  <2>2. h = sender.sent[p + 1] /\ e = Size(p + 1)
    BY <2>1 DEF HeadFrame, FrameEnd, Size
  <2>3. Sent(b[1])
    BY <1>3, <1>4 DEF BufSent
  <2>4. p + 1 \in 1..Len(sender.sent)
    BY <1>1, <2>1, <2>3, Fields DEF Sent
  <2>5. h \in Frames
    BY <1>1, <2>2, <2>4, Fields
  <2>6. h.length \in Nat
    BY <2>5, FramingAssumption DEF Frames
  <2>7. e = LengthSize + h.length
    BY DEF FrameEnd
  <2> QED
    BY <2>2, <2>4, <2>5, <2>6, <2>7, FramingAssumption
<1>7. /\ q \in Pieces /\ Len(q) = Len(b) - e /\ \A i \in 1..Len(q) : q[i] = b[i + e] /\ i + e \in 1..Len(b)
  <2>1. q = SubSeq(b, e + 1, Len(b)) /\ b \in Seq(Nat \X Nat)
    BY <1>4 DEF Delete, Pieces
  <2> HIDE DEF q, b, e
  <2>2. /\ q \in Seq(Nat \X Nat) /\ Len(q) = IF e + 1 <= Len(b) THEN Len(b) - (e + 1) + 1 ELSE 0
        /\ \A i \in 1..Len(b) - (e + 1) + 1 : q[i] = b[e + 1 + i - 1]
    <3>1. \A i \in e + 1..Len(b) : i \in 1..Len(b) /\ b[i] \in Nat \X Nat
      <4>1. e \in Nat /\ e >= 1 /\ Len(b) \in Nat
        BY <1>4, <1>6
      <4>2. ASSUME NEW i \in e + 1..Len(b) PROVE i \in 1..Len(b)
        BY <4>1
      <4> QED
        BY <2>1, <4>2, ElementOfSeq
    <3> DEFINE from == e + 1
               to == Len(b)
    <3>2. from \in Int /\ to \in Int /\ q = SubSeq(b, from, to) /\ \A i \in from..to : b[i] \in Nat \X Nat
      <4>1. e \in Nat /\ Len(b) \in Nat
        BY <1>4, <1>6
      <4>2. e + 1 \in Int /\ Len(b) \in Int
        BY <4>1
      <4> QED
        BY <2>1, <3>1, <4>2
    <3> HIDE DEF from, to
    <3>3. /\ q \in Seq(Nat \X Nat) /\ Len(q) = IF from <= to THEN to - from + 1 ELSE 0
          /\ \A i \in 1..to - from + 1 : q[i] = b[from + i - 1]
      BY <3>2, SubSeqProperties
    <3> QED
      BY <3>3 DEF from, to
  <2>3. Len(q) = Len(b) - e
    BY <1>4, <1>6, <2>2
  <2>4. ASSUME NEW i \in 1..Len(q) PROVE q[i] = b[i + e] /\ i + e \in 1..Len(b)
    <3>1. i \in 1..Len(b) - (e + 1) + 1 /\ e + 1 + i - 1 = i + e /\ i + e \in 1..Len(b)
      BY <1>4, <1>6, <2>3
    <3> QED
      BY <2>2, <3>1
  <2> QED
    BY <2>2, <2>3, <2>4 DEF Pieces
<1> HIDE DEF q, h, e
<1>8. Append(reader.messages, h) \in Seq(Frames)
  <2>1. reader.messages \in Seq(Frames)
    BY <1>1, Fields
  <2> QED
    BY <1>6, <2>1, AppendProperties
<1>9. /\ reader'.pc = "feed" /\ reader'.drained = reader.drained /\ reader'.new_messages = reader.new_messages
      /\ reader'.messages = Append(reader.messages, h) /\ reader'.received = reader.received
      /\ reader'.buf = q /\ reader'.raised = reader.raised
  BY <1>1, <1>2 DEF FrTypes
<1>10. FrTypes'
  BY <1>1, <1>2, <1>7, <1>8, <1>9 DEF FrTypes
<1>11. Coming' = Coming /\ Chained(Coming)' /\ IdsInv'
  <2>1. Coming' = Coming
    BY <1>2, <1>9 DEF Coming
  <2>2. Chained(Coming)'
    BY <1>2, <2>1 DEF FrInv, Chained, IsChunk, NextByte, Size, LastOf, End
  <2> QED
    BY <1>2, <2>1, <2>2 DEF FrInv, IdsInv
<1>12. Parsed' = Append(Parsed, h)
  <2>1. /\ reader.received \in Seq(Frames) /\ reader.new_messages \in Seq(Frames) /\ reader.messages \in Seq(Frames)
    BY <1>1, Fields
  <2>2. reader.received \o reader.new_messages \in Seq(Frames)
    BY <2>1, ConcatProperties
  <2> DEFINE s == reader.received \o reader.new_messages
  <2>3. s \o Append(reader.messages, h) = Append(s \o reader.messages, h)
    <3>1. s \in Seq(Frames) /\ h \in Frames
      BY <1>6, <2>2
    <3> HIDE DEF s
    <3>2. AppendsBehind(s, reader.messages, h)
      BY <2>1, <3>1, AppendedBehind
    <3> QED
      BY <3>2 DEF AppendsBehind
  <2> QED
    BY <1>9, <2>3 DEF Parsed
<1>13. Len(Parsed') = p + 1 /\ Parsed'[p + 1] = h /\ \A i \in 1..p : Parsed'[i] = Parsed[i]
  BY <1>4, <1>6, <1>12, AppendProperties
<1>14. ParsedInv'
  <2>1. Len(sender.sent) \in Nat /\ Len(Parsed') <= Len(sender'.sent)
    BY <1>1, <1>2, <1>4, <1>6, <1>13, Fields
  <2>2. ASSUME NEW i \in 1..Len(Parsed') PROVE Parsed'[i] = sender.sent[i] /\ sender.sent[i].parses
    <3>1. CASE i = p + 1
      BY <1>1, <1>6, <1>13, <3>1
    <3>2. CASE i # p + 1
      <4>1. i \in 1..p
        BY <1>4, <1>13, <3>2
      <4> QED
        BY <1>13, <4>1 DEF FrInv, ParsedInv
    <3> QED
      BY <3>1, <3>2
  <2> QED
    BY <1>2, <2>1, <2>2 DEF ParsedInv
<1>15. BufSent'
  BY <1>2, <1>3, <1>7, <1>9 DEF BufSent, Sent, Size
<1>16. Run(q)
  <2> SUFFICES ASSUME NEW i \in 1..Len(q), NEW j \in 1..Len(q), i <= j
               PROVE  /\ q[i][2] + (j - i) <= Size(q[i][1]) => q[j] = <<q[i][1], q[i][2] + (j - i)>>
                      /\ q[i][2] + (j - i) = Size(q[i][1]) + 1 => q[j] = <<q[i][1] + 1, 1>>
    BY DEF Run
  <2>1. q[i] = b[i + e] /\ q[j] = b[j + e] /\ i + e \in 1..Len(b) /\ j + e \in 1..Len(b) /\ i + e <= j + e
        /\ (j + e) - (i + e) = j - i
    <3>1. e \in Nat /\ i \in Nat /\ j \in Nat
      BY <1>6, <1>7
    <3>2. i + e <= j + e /\ (j + e) - (i + e) = j - i
      BY <3>1
    <3> HIDE DEF q, b, e
    <3> QED
      BY <1>7, <3>2
  <2> HIDE DEF b
  <2> QED
    BY <1>3, <2>1 DEF Run
<1>17. \A x \in Nat : 1 + x \in 1..Len(b) =>
         /\ 1 + x <= e => b[1 + x] = <<p + 1, 1 + x>>
         /\ x = e => b[1 + x] = <<p + 2, 1>>
  <2> SUFFICES ASSUME NEW x \in Nat, 1 + x \in 1..Len(b)
               PROVE  /\ 1 + x <= e => b[1 + x] = <<p + 1, 1 + x>>
                      /\ x = e => b[1 + x] = <<p + 2, 1>>
    OBVIOUS
  <2>1. b[1][1] = p + 1 /\ b[1][2] = 1 /\ Size(b[1][1]) = e /\ 1 \in 1..Len(b) /\ 1 <= 1 + x /\ (1 + x) - 1 = x
    BY <1>4, <1>5, <1>6
  <2> HIDE DEF b
  <2>2. /\ b[1][2] + ((1 + x) - 1) <= Size(b[1][1]) => b[1 + x] = <<b[1][1], b[1][2] + ((1 + x) - 1)>>
        /\ b[1][2] + ((1 + x) - 1) = Size(b[1][1]) + 1 => b[1 + x] = <<b[1][1] + 1, 1>>
    BY <1>3, <2>1 DEF Run
  <2>3. b[1][1] + 1 = p + 2
    BY <1>4, <2>1
  <2> QED
    BY <1>4, <1>6, <2>1, <2>2, <2>3
<1>18. Linked'
  <2>1. q # <<>> => q[1] = <<p + 2, 1>>
    <3> SUFFICES ASSUME q # <<>> PROVE q[1] = <<p + 2, 1>>
      OBVIOUS
    <3>1. 1 \in 1..Len(q)
      BY <1>7, LenProperties, EmptySeq DEF Pieces
    <3>2. q[1] = b[1 + e] /\ 1 + e \in 1..Len(b)
      BY <1>7, <3>1
    <3> QED
      BY <1>6, <1>17, <3>2
  <2>2. IF q = <<>> THEN Due = <<p + 2, 1>> ELSE Due = NextByte(LastOf(q))
    <3>1. CASE q = <<>>
      <4>1. Len(b) = e
        BY <1>4, <1>6, <1>7, <3>1
      <4>2. e - 1 \in Nat /\ 1 + (e - 1) \in 1..Len(b) /\ 1 + (e - 1) <= e /\ 1 + (e - 1) = e
        BY <1>6, <4>1
      <4>3. b[e] = <<p + 1, e>>
        BY <1>17, <4>2
      <4>4. LastOf(b) = <<p + 1, e>>
        BY <4>1, <4>3 DEF LastOf
      <4>5. ~(e < LengthSize + sender.sent[p + 1].length) /\ (p + 1) + 1 = p + 2
        BY <1>4, <1>6 DEF Size
      <4>6. NextByte(LastOf(b)) = <<p + 2, 1>>
        BY <4>4, <4>5 DEF NextByte
      <4> QED
        BY <1>4, <3>1, <4>6 DEF Due
    <3>2. CASE q # <<>>
      <4>1. Len(q) \in 1..Len(q)
        BY <1>7, <3>2, LenProperties, EmptySeq DEF Pieces
      <4>2. q[Len(q)] = b[Len(b)]
        <5>1. Len(q) + e = Len(b)
          BY <1>4, <1>6, <1>7
        <5> QED
          BY <1>7, <4>1, <5>1
      <4> QED
        BY <1>4, <3>2, <4>2 DEF Due, LastOf
    <3> QED
      BY <3>1, <3>2
  <2>3. Len(Parsed') + 1 = p + 2
    BY <1>4, <1>13
  <2>4. IF Coming = <<>> THEN Due = End ELSE Coming[1][1] = Due
    BY <1>3 DEF Linked
  <2>5. Due' = Due
    BY <1>2, <1>9, <2>2, <2>3 DEF Due, NextByte, LastOf
  <2>6. Run(reader.buf)'
    BY <1>2, <1>9, <1>16 DEF Run, Size
  <2>7. End' = End
    BY <1>2 DEF End
  <2> QED
    BY <1>9, <1>11, <2>1, <2>3, <2>4, <2>5, <2>6, <2>7 DEF Linked
<1> QED
  BY <1>1, <1>9, <1>10, <1>11, <1>14, <1>15, <1>18 DEF FrInv

\* A frame is sent: its chunks follow what is on its way.
LEMMA SendHolds ==
  ASSUME FrInv, NEW frame \in Frames, NEW next \in Nat, Send(frame),
         sender' = [sender EXCEPT !.next_msg_id = next, !.sent = Append(sender.sent, frame)],
         UNCHANGED <<max_payload, reader>>,
         frame.parses => frame.id = sender.next_msg_id /\ next = sender.next_msg_id + 1
  PROVE  FrInv'
<1> DEFINE N == Len(sender.sent)
           cs == Chunks(N + 1, frame.length)
           size == LengthSize + frame.length
           new == sender'.sent
           newSize(n) == LengthSize + new[n].length
           newNext(b) == IF b[2] < newSize(b[1]) THEN <<b[1], b[2] + 1>> ELSE <<b[1] + 1, 1>>
           newChunk(c) == /\ c # <<>> /\ c[1][1] \in DOMAIN new /\ c[1][2] >= 1
                          /\ \A k \in DOMAIN c : c[k] = <<c[1][1], c[1][2] + k - 1>>
                          /\ c[1][2] + Len(c) - 1 <= newSize(c[1][1])
<1>1. FrTypes /\ BufSent /\ Chained(Coming)
  BY DEF FrInv
<1>2. /\ N \in Nat /\ sender.sent \in Seq(Frames) /\ DOMAIN sender.sent = 1..N /\ \A i \in 1..N : sender.sent[i] \in Frames
      /\ frame.length \in Nat /\ size \in Nat /\ size >= 1 /\ LengthSize \in Nat
  <2>1. frame.length \in Nat
    BY FramingAssumption DEF Frames
  <2>2. LengthSize \in Nat /\ LengthSize >= 1
    BY FramingAssumption
  <2>3. size \in Nat /\ size >= 1
    BY <2>1, <2>2
  <2> QED
    BY <1>1, <2>1, <2>2, <2>3, Fields
<1>3. /\ new \in Seq(Frames) /\ Len(new) = N + 1 /\ DOMAIN new = 1..(N + 1) /\ new[N + 1] = frame
      /\ \A i \in 1..N : new[i] = sender.sent[i]
      /\ sender'.next_msg_id = next
  <2>1. new = Append(sender.sent, frame) /\ sender'.next_msg_id = next
    BY <1>1 DEF FrTypes
  <2> QED
    BY <1>2, <2>1
<1>4. stream' = [stream EXCEPT !.wire = stream.wire \o cs] /\ reader' = reader /\ max_payload' = max_payload
  BY DEF Send
<1>5. Cuts(cs, N + 1, size)
  <2>1. N + 1 \in Nat
    BY <1>2
  <2> QED
    BY <1>1, <1>2, <2>1, ChunksAre, Zenon
<1> HIDE DEF cs, new
<1>6. stream.wire \o cs \in Seq(Pieces)
  <2>1. stream.wire \in Seq(Pieces)
    BY <1>1, Fields
  <2> QED
    BY <1>5, <2>1, ConcatProperties DEF Cuts
<1>7. FrTypes'
  <2> DEFINE w == stream.wire \o cs
             a == Append(sender.sent, frame)
  <2>1. w \in Seq(Pieces) /\ stream' = [stream EXCEPT !.wire = w]
    BY <1>4, <1>6
  <2>2. a \in Seq(Frames)
    BY <1>2, AppendProperties
  <2>3. sender' = [sender EXCEPT !.next_msg_id = next, !.sent = a]
    OBVIOUS
  <2> HIDE DEF w, a
  <2> QED
    BY <1>1, <1>4, <2>1, <2>2, <2>3 DEF FrTypes
<1>8. /\ Coming \in Seq(Pieces) /\ Len(Coming) \in Nat /\ Coming' \in Seq(Pieces) /\ Len(Coming') = Len(Coming) + Len(cs)
      /\ \A i \in 1..Len(Coming') : Coming'[i] = IF i <= Len(Coming) THEN Coming[i] ELSE cs[i - Len(Coming)]
  <2>1. /\ reader.drained \in Seq(Pieces) /\ stream.buffer \in Seq(Pieces) /\ stream.wire \in Seq(Pieces)
        /\ reader.drained \o stream.buffer \in Seq(Pieces)
    <3>1. reader.drained \in Seq(Pieces) /\ stream.buffer \in Seq(Pieces) /\ stream.wire \in Seq(Pieces)
      BY <1>1, Fields
    <3> QED
      BY <3>1, ConcatProperties
  <2> DEFINE s == reader.drained \o stream.buffer
  <2>2. cs \in Seq(Pieces)
    BY <1>5 DEF Cuts
  <2>3. /\ stream'.wire = stream.wire \o cs /\ stream'.buffer = stream.buffer
    BY <1>1, <1>4 DEF FrTypes
  <2>4. (reader.drained \o stream.buffer) \o (stream.wire \o cs) = Coming \o cs
    <3>1. (s \o stream.wire) \o cs = s \o (stream.wire \o cs)
      <4>1. s \in Seq(Pieces) /\ stream.wire \in Seq(Pieces)
        BY <2>1
      <4> HIDE DEF s
      <4>2. Regroups(s, stream.wire, cs)
        BY <2>2, <4>1, Regrouped
      <4> QED
        BY <4>2 DEF Regroups
    <3> QED
      BY <3>1 DEF Coming
  <2>5. Coming' = Coming \o cs
    BY <1>4, <2>3, <2>4 DEF Coming
  <2>6. Coming \in Seq(Pieces)
    BY <1>1, ComingType
  <2> HIDE DEF Coming
  <2> QED
    BY <1>5, <2>5, <2>6, ConcatProperties, LenProperties DEF Cuts
<1>9. \A n \in 1..N : newSize(n) = Size(n)
  BY <1>3 DEF Size
<1>10. newSize(N + 1) = size
  BY <1>3
<1>11. \A b : b[1] \in 1..N => newNext(b) = NextByte(b)
  BY <1>3 DEF NextByte
<1>12. \A c : IsChunk(c) => newChunk(c)
  <2> SUFFICES ASSUME NEW c, IsChunk(c) PROVE newChunk(c)
    OBVIOUS
  <2>1. c[1][1] \in 1..N /\ c[1][1] \in 1..(N + 1)
    BY <1>2 DEF IsChunk
  <2> QED
    BY <1>3, <1>9, <2>1 DEF IsChunk
<1> HIDE DEF newSize
<1>13. ASSUME NEW i \in 1..Len(cs)
       PROVE  /\ newChunk(cs[i])
              /\ i < Len(cs) => newNext(LastOf(cs[i])) = cs[i + 1][1]
              /\ i = Len(cs) => newNext(LastOf(cs[i])) = <<N + 2, 1>>
              /\ i = 1 => cs[i][1] = <<N + 1, 1>>
  <2> DEFINE c == cs[i]
             l == Len(c)
  <2>1. PICK start \in Nat :
                /\ \A k \in 1..l : c[k] = <<N + 1, start + k>>
                /\ i = 1 => start = 0
                /\ start + l <= size
                /\ i < Len(cs) => start + l < size /\ cs[i + 1][1] = <<N + 1, start + l + 1>>
                /\ i = Len(cs) => start + l = size
    BY <1>5 DEF Cuts
  <2>2. l \in Nat \ {0} /\ DOMAIN c = 1..l /\ c \in Pieces /\ 1 \in 1..l /\ l \in 1..l
    BY <1>5 DEF Cuts
  <2>3. c[1] = <<N + 1, start + 1>> /\ c[l] = <<N + 1, start + l>>
    BY <2>1, <2>2
  <2>4. newChunk(c)
    <3>1. c # <<>>
      BY <2>2, EmptySeq DEF Pieces
    <3>2. c[1][1] = N + 1 /\ c[1][2] = start + 1 /\ N + 1 \in 1..(N + 1) /\ start + 1 >= 1
      <4> HIDE DEF c, l, size, N
      <4>1. c[1][1] = N + 1 /\ c[1][2] = start + 1
        BY <2>3
      <4>2. N + 1 \in 1..(N + 1) /\ start + 1 >= 1
        BY <1>2
      <4> QED
        BY <4>1, <4>2
    <3>3. \A k \in 1..l : (start + 1) + k - 1 = start + k
      BY <2>2
    <3>4. (start + 1) + l - 1 <= size
      BY <1>2, <2>1, <2>2
    <3> HIDE DEF c, l
    <3> QED
      BY <1>3, <1>10, <2>1, <2>2, <3>1, <3>2, <3>3, <3>4 DEF l
  <2>5. LastOf(c) = <<N + 1, start + l>>
    BY <2>3 DEF LastOf
  <2>6. i < Len(cs) => newNext(LastOf(c)) = cs[i + 1][1]
    <3> DEFINE x == start + l
    <3>1. i < Len(cs) => x < size /\ cs[i + 1][1] = <<N + 1, x + 1>>
      BY <2>1
    <3>2. LastOf(c) = <<N + 1, x>>
      BY <2>5
    <3> HIDE DEF x, c, size
    <3> QED
      BY <1>10, <3>1, <3>2
  <2>7. i = Len(cs) => newNext(LastOf(c)) = <<N + 2, 1>>
    <3>1. (N + 1) + 1 = N + 2 /\ ~(size < size)
      BY <1>2
    <3> QED
      BY <1>10, <2>1, <2>5, <3>1
  <2>8. i = 1 => c[1] = <<N + 1, 1>>
    BY <2>1, <2>3
  <2> QED
    BY <2>4, <2>6, <2>7, <2>8
<1>14. End = <<N + 1, 1>> /\ End' = <<N + 2, 1>>
  BY <1>2, <1>3 DEF End, new
<1>15. \A i \in 1..Len(Coming) : IsChunk(Coming[i]) /\ LastOf(Coming[i])[1] \in 1..N
  <2> SUFFICES ASSUME NEW i \in 1..Len(Coming) PROVE IsChunk(Coming[i]) /\ LastOf(Coming[i])[1] \in 1..N
    OBVIOUS
  <2>1. IsChunk(Coming[i]) /\ Coming[i] \in Seq(Nat \X Nat)
    BY <1>1, <1>8 DEF Chained, Pieces
  <2> DEFINE c == Coming[i]
  <2> HIDE DEF c
  <2>2. IsChunk(c) /\ c \in Seq(Nat \X Nat)
    BY <2>1 DEF c
  <2>3. Len(c) \in DOMAIN c
    BY <2>2, LenProperties, EmptySeq DEF IsChunk
  <2>4. LastOf(c)[1] = c[1][1]
    BY <2>2, <2>3 DEF IsChunk, LastOf
  <2> QED
    BY <1>2, <2>1, <2>4 DEF IsChunk, c
<1> HIDE DEF newNext, newChunk
<1>16. /\ \A i \in 1..Len(Coming') : newChunk(Coming'[i])
       /\ \A i \in 1..Len(Coming') : i < Len(Coming') => Coming'[i + 1][1] = newNext(LastOf(Coming'[i]))
       /\ newNext(LastOf(LastOf(Coming'))) = <<N + 2, 1>>
       /\ Coming' # <<>> /\ Coming'[1] = IF Coming = <<>> THEN cs[1] ELSE Coming[1]
  <2> DEFINE g == Len(Coming)
  <2>0. g \in Nat /\ Len(Coming') = g + Len(cs) /\ Len(cs) \in Nat \ {0} /\ (Coming = <<>> <=> g = 0)
    BY <1>5, <1>8, EmptySeq DEF Cuts
  <2>1. ASSUME NEW i \in 1..Len(Coming') PROVE newChunk(Coming'[i])
    <3>1. CASE i <= g
      <4>1. i \in 1..g
        BY <2>0, <3>1
      <4> QED
        BY <1>8, <1>12, <1>15, <3>1, <4>1
    <3>2. CASE ~(i <= g)
      <4>1. i - g \in 1..Len(cs)
        BY <2>0, <3>2
      <4> QED
        BY <1>8, <1>13, <3>2, <4>1
    <3> QED
      BY <3>1, <3>2
  <2>2. ASSUME NEW i \in 1..Len(Coming'), i < Len(Coming')
        PROVE  Coming'[i + 1][1] = newNext(LastOf(Coming'[i]))
    <3>0. i + 1 \in 1..Len(Coming')
      BY <2>0, <2>2
    <3>1. CASE i < g
      <4>1. i \in 1..g /\ i <= g /\ i + 1 <= g /\ i < Len(Coming)
        BY <2>0, <3>1
      <4>2. Coming'[i] = Coming[i] /\ Coming'[i + 1] = Coming[i + 1]
        BY <1>8, <3>0, <4>1
      <4>3. Coming[i + 1][1] = NextByte(LastOf(Coming[i]))
        BY <1>1, <4>1 DEF Chained
      <4> QED
        BY <1>11, <1>15, <4>1, <4>2, <4>3
    <3>2. CASE i = g
      <4>1. i <= g /\ ~(i + 1 <= g) /\ (i + 1) - g = 1 /\ i \in 1..g /\ Coming # <<>> /\ 1 \in 1..Len(cs)
        BY <2>0, <3>2
      <4>2. Coming'[i] = Coming[i] /\ Coming'[i + 1] = cs[1] /\ cs[1][1] = <<N + 1, 1>>
        BY <1>8, <1>13, <3>0, <4>1
      <4>3. NextByte(LastOf(Coming[i])) = End
        BY <1>1, <3>2, <4>1 DEF Chained, LastOf
      <4> QED
        BY <1>11, <1>14, <1>15, <4>1, <4>2, <4>3
    <3>3. CASE i > g
      <4>1. ~(i <= g) /\ ~(i + 1 <= g) /\ (i + 1) - g = (i - g) + 1 /\ i - g \in 1..Len(cs) /\ i - g < Len(cs)
        BY <2>0, <2>2, <3>3
      <4>2. Coming'[i] = cs[i - g] /\ Coming'[i + 1] = cs[(i - g) + 1]
        BY <1>8, <3>0, <4>1
      <4> QED
        BY <1>13, <4>1, <4>2
    <3> QED
      BY <2>0, <3>1, <3>2, <3>3
  <2>3. LastOf(Coming') = cs[Len(cs)] /\ Len(cs) \in 1..Len(cs)
    <3>1. Len(Coming') \in 1..Len(Coming') /\ ~(Len(Coming') <= g) /\ Len(Coming') - g = Len(cs) /\ Len(cs) \in 1..Len(cs)
      BY <2>0
    <3> QED
      BY <1>8, <3>1 DEF LastOf
  <2>4. newNext(LastOf(LastOf(Coming'))) = <<N + 2, 1>>
    BY <1>13, <2>3
  <2>5. 1 \in 1..Len(Coming') /\ (g = 0 => ~(1 <= g) /\ 1 - g = 1) /\ (g # 0 => 1 <= g)
    BY <2>0
  <2>6. Coming'[1] = IF Coming = <<>> THEN cs[1] ELSE Coming[1]
    BY <1>8, <2>0, <2>5
  <2>7. Coming' # <<>>
    BY <1>8, <2>5, EmptySeq
  <2> QED
    BY <2>1, <2>2, <2>4, <2>6, <2>7
<1>17. Chained(Coming)'
  <2>1. \A c : newChunk(c) => /\ c # <<>> /\ c[1][1] \in DOMAIN sender'.sent /\ c[1][2] >= 1
                              /\ \A k \in DOMAIN c : c[k] = <<c[1][1], c[1][2] + k - 1>>
                              /\ c[1][2] + Len(c) - 1 <= LengthSize + sender'.sent[c[1][1]].length
    BY DEF newChunk, newSize, new
  <2>2. \A b : newNext(b) = IF b[2] < LengthSize + sender'.sent[b[1]].length THEN <<b[1], b[2] + 1>> ELSE <<b[1] + 1, 1>>
    BY DEF newNext, newSize, new
  <2> QED
    BY <1>14, <1>16, <2>1, <2>2 DEF Chained, IsChunk, NextByte, Size, LastOf
<1>18. \A i \in 1..Len(reader.buf) : reader.buf[i][1] \in 1..N /\ Size(reader.buf[i][1]) = newSize(reader.buf[i][1])
  BY <1>1, <1>2, <1>9 DEF BufSent, Sent
<1>19. BufSent'
  <2> SUFFICES ASSUME NEW i \in 1..Len(reader.buf)
               PROVE  reader.buf[i][1] \in DOMAIN new /\ reader.buf[i][2] \in 1..newSize(reader.buf[i][1])
    BY <1>4 DEF BufSent, Sent, Size, newSize, new
  <2> QED
    <3>1. reader.buf[i][1] \in 1..N /\ Size(reader.buf[i][1]) = newSize(reader.buf[i][1])
      BY <1>18
    <3>2. reader.buf[i][2] \in 1..Size(reader.buf[i][1])
      BY <1>1 DEF BufSent, Sent
    <3>3. 1..N \subseteq DOMAIN new
      BY <1>2, <1>3
    <3> HIDE DEF N
    <3> QED
      BY <3>1, <3>2, <3>3
<1>20. Parsed' = Parsed /\ Len(Parsed) \in Nat
  BY <1>1, <1>4, ComingType, LenProperties DEF Parsed
<1>21. ParsedInv'
  <2>1. Len(Parsed) <= N /\ \A i \in 1..Len(Parsed) : Parsed[i] = sender.sent[i] /\ sender.sent[i].parses
    BY DEF FrInv, ParsedInv
  <2>2. Len(Parsed) <= N + 1 /\ \A i \in 1..Len(Parsed) : i \in 1..N
    BY <1>2, <1>20, <2>1
  <2> QED
    BY <1>3, <1>20, <2>1, <2>2 DEF ParsedInv, new
<1>22. IdsInv'
  <2>1. /\ (\A i \in 1..N : sender.sent[i].parses) => sender.next_msg_id = N + 1
        /\ \A i \in 1..N : (\A j \in 1..i : sender.sent[j].parses) => sender.sent[i].id = i
    BY DEF FrInv, IdsInv
  <2>2. (\A i \in 1..(N + 1) : new[i].parses) => next = N + 2
    <3> SUFFICES ASSUME \A i \in 1..(N + 1) : new[i].parses PROVE next = N + 2
      OBVIOUS
    <3>1. \A i \in 1..N : sender.sent[i].parses
      BY <1>2, <1>3
    <3>2. frame.parses
      BY <1>2, <1>3
    <3> QED
      BY <1>2, <2>1, <3>1, <3>2
  <2>3. ASSUME NEW i \in 1..(N + 1), \A j \in 1..i : new[j].parses PROVE new[i].id = i
    <3>1. CASE i = N + 1
      <4>1. \A j \in 1..N : sender.sent[j].parses
        BY <1>2, <1>3, <2>3, <3>1
      <4>2. frame.parses
        BY <1>2, <1>3, <2>3, <3>1
      <4> QED
        BY <1>2, <1>3, <2>1, <3>1, <4>1, <4>2
    <3>2. CASE i # N + 1
      <4>1. i \in 1..N /\ \A j \in 1..i : j \in 1..N
        BY <1>2, <3>2
      <4>2. \A j \in 1..i : sender.sent[j].parses
        BY <1>3, <2>3, <4>1
      <4> QED
        BY <1>3, <2>1, <4>1, <4>2
    <3> QED
      BY <3>1, <3>2
  <2>4. Len(new) + 1 = N + 2
    BY <1>2, <1>3
  <2> QED
    BY <1>3, <2>2, <2>3, <2>4 DEF IdsInv, new
<1>23. reader.buf # <<>> => 1 \in 1..Len(reader.buf) /\ Len(reader.buf) \in 1..Len(reader.buf)
  BY <1>1, Fields
<1>24. reader.buf # <<>> => HeadFrame' = HeadFrame
  <2> SUFFICES ASSUME reader.buf # <<>> PROVE HeadFrame' = HeadFrame
    OBVIOUS
  <2>1. reader.buf[1][1] \in 1..N
    BY <1>18, <1>23
  <2> QED
    BY <1>3, <1>4, <2>1 DEF HeadFrame, new
<1>25. LengthKnown' = LengthKnown /\ (LengthKnown => reader.buf # <<>>)
  <2>1. Len(reader.buf) \in Nat /\ LengthSize \in Nat \ {0} /\ (reader.buf = <<>> <=> Len(reader.buf) = 0)
    BY <1>1, Fields, FramingAssumption
  <2> QED
    BY <1>4, <2>1 DEF LengthKnown
<1>26. /\ FrameThere' <=> FrameThere
       /\ Stuck => Stuck'
  BY <1>4, <1>24, <1>25 DEF FrameThere, LengthKnown, LengthBad, FrameEnd, Stuck
<1>27. CASE reader.raised
  <2>1. Stuck'
    BY <1>26, <1>27 DEF FrInv
  <2> QED
    BY <1>4, <1>7, <1>17, <1>19, <1>21, <1>22, <1>27, <2>1 DEF FrInv
<1>28. CASE ~reader.raised
  <2>1. Linked
    BY <1>28 DEF FrInv
  <2>2. Run(reader.buf)'
    <3>1. \A i \in 1..Len(reader.buf) : Size(reader.buf[i][1]) = LengthSize + sender'.sent[reader.buf[i][1]].length
      BY <1>18 DEF newSize, new
    <3> SUFFICES ASSUME NEW i \in 1..Len(reader.buf), NEW j \in 1..Len(reader.buf), i <= j
                 PROVE  LET new2 == LengthSize + sender'.sent[reader.buf[i][1]].length
                        IN  /\ reader.buf[i][2] + (j - i) <= new2
                               => reader.buf[j] = <<reader.buf[i][1], reader.buf[i][2] + (j - i)>>
                            /\ reader.buf[i][2] + (j - i) = new2 + 1 => reader.buf[j] = <<reader.buf[i][1] + 1, 1>>
      BY <1>4 DEF Run, Size
    <3>2. Run(reader.buf)
      BY <2>1 DEF Linked
    <3> QED
      BY <3>1, <3>2 DEF Run
  <2>3. Due' = Due
    <3>1. CASE reader.buf = <<>>
      BY <1>4, <1>20, <3>1 DEF Due
    <3>2. CASE reader.buf # <<>>
      <4>1. LastOf(reader.buf)[1] \in 1..N
        BY <1>18, <1>23, <3>2 DEF LastOf
      <4>2. newNext(LastOf(reader.buf)) = NextByte(LastOf(reader.buf))
        BY <1>11, <4>1
      <4>3. Due' = newNext(LastOf(reader.buf))
        BY <1>4, <3>2 DEF Due, NextByte, newNext, newSize, new, LastOf
      <4> QED
        BY <3>2, <4>2, <4>3 DEF Due
    <3> QED
      BY <3>1, <3>2
  <2>4. Coming'[1][1] = Due
    <3>1. 1 \in 1..Len(cs)
      BY <1>5 DEF Cuts
    <3>2. cs[1][1] = <<N + 1, 1>>
      BY <1>13, <3>1
    <3> QED
      BY <1>14, <1>16, <2>1, <3>2 DEF Linked
  <2>5. Linked'
    BY <1>4, <1>16, <1>20, <2>1, <2>2, <2>3, <2>4 DEF Linked
  <2>6. reader'.pc # "feed" => ~FrameThere'
    BY <1>4, <1>26, <1>28 DEF FrInv
  <2> QED
    BY <1>4, <1>7, <1>17, <1>19, <1>21, <1>22, <1>28, <2>5, <2>6 DEF FrInv
<1> QED
  BY <1>27, <1>28

LEMMA SendMessageHolds ==
  ASSUME FrInv, NEW length \in 0..MaxLength + 1, SendMessage(length)
  PROVE  FrInv'
<1> DEFINE frame == [id |-> sender.next_msg_id, length |-> length, parses |-> TRUE]
           next == sender.next_msg_id + 1
<1>1. frame \in Frames /\ next \in Nat /\ frame.parses /\ frame.id = sender.next_msg_id
  <2>1. sender.next_msg_id \in Nat
    BY DEF FrInv, FrTypes
  <2>2. next \in Nat
    BY <2>1
  <2>3. frame \in Frames
    BY <2>1 DEF Frames
  <2> QED
    BY <2>2, <2>3
<1>2. /\ Send(frame) /\ UNCHANGED <<max_payload, reader>>
      /\ sender' = [sender EXCEPT !.next_msg_id = next, !.sent = Append(sender.sent, frame)]
  BY DEF SendMessage
<1> HIDE DEF frame
<1> QED
  BY <1>1, <1>2, SendHolds

LEMMA SendForeignHolds ==
  ASSUME FrInv, NEW length \in 0..MaxLength + 1, SendForeign(length)
  PROVE  FrInv'
<1> DEFINE frame == [id |-> 0, length |-> length, parses |-> FALSE]
           next == sender.next_msg_id
           sent == Append(sender.sent, frame)
<1>1. frame \in Frames /\ next \in Nat /\ ~frame.parses
  <2>1. next \in Nat
    BY DEF FrInv, FrTypes
  <2>2. frame \in Frames
    BY DEF Frames
  <2> QED
    BY <2>1, <2>2
<1>2. Send(frame) /\ UNCHANGED <<max_payload, reader>> /\ sender' = [sender EXCEPT !.sent = sent]
  BY DEF SendForeign
<1>3. sender' = [sender EXCEPT !.next_msg_id = next, !.sent = sent]
  <2> HIDE DEF sent
  <2> QED
    BY <1>2 DEF FrInv, FrTypes
<1> HIDE DEF frame
<1> QED
  BY <1>1, <1>2, <1>3, SendHolds

LEMMA FrInvInit == FramingInit => FrInv
<1> SUFFICES ASSUME FramingInit PROVE FrInv
  OBVIOUS
<1>1. /\ sender = [established |-> FALSE, switches |-> 0, next_msg_id |-> 1, sent |-> <<>>]
      /\ stream = [wire |-> <<>>, buffer |-> <<>>] /\ max_payload \in Nat \ {0}
      /\ reader = [pc |-> "idle", drained |-> <<>>, buf |-> <<>>, messages |-> <<>>, new_messages |-> <<>>,
                    received |-> <<>>, raised |-> FALSE]
  BY FramingAssumption DEF FramingInit
<1>2. FrTypes
  <2>1. <<>> \in Seq(Pieces) /\ <<>> \in Seq(Frames) /\ <<>> \in Pieces
    BY DEF Pieces
  <2> QED
    BY <1>1, <2>1 DEF FrTypes
<1>3. Coming = <<>> /\ Parsed = <<>>
  <2>1. \A S : <<>> \o <<>> \o <<>> = <<>>
    BY SMT
  <2> QED
    BY <1>1, <2>1 DEF Coming, Parsed
<1>4. /\ reader.buf = <<>> /\ sender.sent = <<>> /\ sender.next_msg_id = 1 /\ ~reader.raised
      /\ Len(<<>>) = 0 /\ ~(0 >= LengthSize)
  BY <1>1, FramingAssumption
<1>5. BufSent /\ Chained(Coming) /\ ParsedInv /\ IdsInv
  BY <1>3, <1>4 DEF BufSent, Chained, ParsedInv, IdsInv
<1>6. Linked /\ ~FrameThere
  BY <1>3, <1>4 DEF Linked, Run, Due, End, FrameThere, LengthKnown
<1> QED
  BY <1>2, <1>4, <1>5, <1>6 DEF FrInv

LEMMA FrInvStep == FrInv /\ [FramingNext]_framingVars => FrInv'
<1> SUFFICES ASSUME FrInv, [FramingNext]_framingVars PROVE FrInv'
  OBVIOUS
<1>1. ASSUME NEW length \in 0..MaxLength + 1, SendMessage(length) \/ SendForeign(length) PROVE FrInv'
  BY <1>1, SendMessageHolds, SendForeignHolds
<1>2. CASE UNCHANGED framingVars
  <2>1. sender' = sender /\ stream' = stream /\ reader' = reader /\ max_payload' = max_payload
    BY <1>2 DEF framingVars
  <2>2. FrTypes'
    BY <2>1 DEF FrInv, FrTypes
  <2> QED
    BY <2>1, <2>2, SameHolds DEF Coming, Parsed, FrInv, Stuck
<1> QED
  BY <1>1, <1>2, SessionSwitchesHolds, ArrivesHolds, PumpDrainsHolds, FeedBeginsHolds, TakeFrameHolds,
     FeedRaisesHolds, FeedReturnsHolds, PumpReturnsHolds DEF FramingNext

\* A byte and the next.
LEMMA ChunkRuns ==
  ASSUME FrTypes, NEW c \in Pieces, IsChunk(c), NEW k \in 1..Len(c) - 1
  PROVE  c[k + 1] = NextByte(c[k])
<1>1. /\ c \in Seq(Nat \X Nat) /\ DOMAIN c = 1..Len(c) /\ Len(c) \in Nat
  BY DEF Pieces
<1>2. k \in 1..Len(c) /\ k + 1 \in 1..Len(c) /\ 1 \in 1..Len(c) /\ k < Len(c) /\ k \in Nat
  BY <1>1
<1>3. c[k] = <<c[1][1], c[1][2] + k - 1>> /\ c[k + 1] = <<c[1][1], c[1][2] + (k + 1) - 1>> /\ c[1][2] \in Nat
      /\ c[1][2] + Len(c) - 1 <= Size(c[1][1]) /\ Size(c[1][1]) \in Nat
  <2>1. c[1] \in Nat \X Nat /\ Size(c[1][1]) \in Nat
    <3>1. c[1] \in Nat \X Nat
      BY <1>1, <1>2, ElementOfSeq
    <3>2. c[1][1] \in DOMAIN sender.sent
      BY DEF IsChunk
    <3> QED
      BY <3>1, <3>2, SizeType
  <2>2. c[1][2] \in Nat
    BY <2>1
  <2> QED
    BY <1>1, <1>2, <2>1, <2>2 DEF IsChunk
<1> DEFINE n == c[1][1]
           a == c[1][2]
           z == Size(n)
<1>4. a + (k + 1) - 1 = (a + k - 1) + 1 /\ a + k - 1 < z
  <2>1. a \in Nat /\ z \in Nat /\ a + Len(c) - 1 <= z
    BY <1>3
  <2> HIDE DEF a, z
  <2> QED
    BY <1>1, <1>2, <2>1
<1>5. c[k] = <<n, a + k - 1>> /\ c[k + 1] = <<n, (a + k - 1) + 1>>
  BY <1>3, <1>4
<1> HIDE DEF n, a
<1> QED
  BY <1>4, <1>5 DEF NextByte, Size

LEMMA BufferRuns ==
  ASSUME FrTypes, BufSent, Run(reader.buf), NEW k \in 1..Len(reader.buf) - 1
  PROVE  reader.buf[k + 1] = NextByte(reader.buf[k])
<1> DEFINE b == reader.buf
<1>1. Len(b) \in Nat
  BY Fields
<1>2. k \in 1..Len(b) /\ k + 1 \in 1..Len(b) /\ k <= k + 1 /\ (k + 1) - k = 1
  BY <1>1
<1>3. /\ b[k][2] + ((k + 1) - k) <= Size(b[k][1]) => b[k + 1] = <<b[k][1], b[k][2] + ((k + 1) - k)>>
      /\ b[k][2] + ((k + 1) - k) = Size(b[k][1]) + 1 => b[k + 1] = <<b[k][1] + 1, 1>>
  BY <1>2 DEF Run
<1>4. b[k][1] \in DOMAIN sender.sent /\ b[k][2] \in 1..Size(b[k][1])
  BY <1>2 DEF BufSent, Sent
<1>5. Size(b[k][1]) \in Nat
  BY <1>4, SizeType
<1> DEFINE x == b[k]
           n == x[1]
           a == x[2]
           z == Size(n)
<1>6. /\ a + 1 <= z => b[k + 1] = <<n, a + 1>>
      /\ a + 1 = z + 1 => b[k + 1] = <<n + 1, 1>>
      /\ a \in 1..z /\ z \in Nat
  BY <1>2, <1>3, <1>4, <1>5
<1>7. NextByte(x) = IF a < z THEN <<n, a + 1>> ELSE <<n + 1, 1>>
  BY DEF NextByte, Size
<1> HIDE DEF b, x, n, a, z
<1>8. b[k + 1] = NextByte(x)
  BY <1>6, <1>7
<1> QED
  BY <1>8 DEF b, x

LEMMA ReceivedIsPrefix ==
  ASSUME FrInv
  PROVE  /\ IsPrefix(reader.received, sender.sent)
         /\ \A i \in 1..Len(reader.received) : reader.received[i].id = i
<1> DEFINE r == reader.received
           u == reader.new_messages \o reader.messages
<1>1. /\ r \in Seq(Frames) /\ u \in Seq(Frames) /\ sender.sent \in Seq(Frames) /\ Parsed = r \o u
  <2>1. /\ reader.received \in Seq(Frames) /\ reader.new_messages \in Seq(Frames) /\ reader.messages \in Seq(Frames)
        /\ sender.sent \in Seq(Frames)
    BY Fields DEF FrInv
  <2>2. Regroups(reader.received, reader.new_messages, reader.messages)
    BY <2>1, Regrouped
  <2>3. Parsed = r \o u
    BY <2>2 DEF Parsed, Regroups
  <2> QED
    BY <2>1, <2>3, ConcatProperties
<1> HIDE DEF u, r
<1>2. /\ Len(r) \in Nat /\ Len(Parsed) \in Nat /\ Len(r) <= Len(Parsed) /\ \A i \in 1..Len(r) : Parsed[i] = r[i]
  BY <1>1, ConcatProperties, LenProperties
<1>3. /\ Len(Parsed) <= Len(sender.sent) /\ Len(sender.sent) \in Nat
      /\ \A i \in 1..Len(Parsed) : Parsed[i] = sender.sent[i] /\ sender.sent[i].parses
  BY <1>1, LenProperties DEF FrInv, ParsedInv
<1>4. Len(r) <= Len(sender.sent) /\ \A i \in 1..Len(r) : i \in 1..Len(Parsed) /\ r[i] = sender.sent[i] /\ i \in 1..Len(sender.sent)
  BY <1>2, <1>3
<1>5. IsPrefix(r, sender.sent)
  <2> DEFINE t == sender.sent
             l == Len(r)
  <2>1. t \in Seq(Frames) /\ l \in Nat /\ l <= Len(t) /\ Len(t) \in Nat /\ \A i \in 1..l : r[i] = t[i]
    BY <1>1, <1>2, <1>3, <1>4
  <2> HIDE DEF t
  <2>2. SubSeq(r, 1, l) = [i \in 1..l |-> r[i]] /\ SubSeq(t, 1, l) = [i \in 1..l |-> t[i]]
    BY <1>1, <2>1
  <2>3. SubSeq(r, 1, l) = SubSeq(t, 1, l)
    BY <2>1, <2>2
  <2> QED
    BY <2>1, <2>3 DEF IsPrefix, t
<1>6. ASSUME NEW i \in 1..Len(r) PROVE r[i].id = i
  <2>1. i \in 1..Len(sender.sent) /\ \A j \in 1..i : j \in 1..Len(Parsed)
    BY <1>2, <1>3, <1>4
  <2>2. \A j \in 1..i : sender.sent[j].parses
    BY <1>3, <2>1
  <2> QED
    BY <1>4, <2>1, <2>2 DEF FrInv, IdsInv
<1> QED
  BY <1>5, <1>6 DEF r

LEMMA WaitingUnbroken ==
  ASSUME FrInv, reader.pc = "idle", ~reader.raised
  PROVE  LET pieces == (IF reader.buf = <<>> THEN <<>> ELSE <<reader.buf>>) \o stream.buffer \o stream.wire
         IN  Unbroken(pieces, <<Len(reader.received) + 1, 1>>, <<Len(sender.sent) + 1, 1>>)
<1> DEFINE b == reader.buf
           pre == IF b = <<>> THEN <<>> ELSE <<b>>
           g == Len(pre)
           pieces == pre \o stream.buffer \o stream.wire
           from == <<Len(reader.received) + 1, 1>>
           due(i) == IF i = 1 THEN from ELSE NextByte(Last(pieces[i - 1]))
<1>1. FrTypes /\ BufSent /\ Linked /\ Chained(Coming)
  BY DEF FrInv
<1>2. /\ reader.drained = <<>> /\ reader.new_messages = <<>> /\ reader.messages = <<>>
      /\ stream.buffer \in Seq(Pieces) /\ stream.wire \in Seq(Pieces) /\ reader.received \in Seq(Frames) /\ b \in Pieces
  BY <1>1, Fields DEF FrTypes
<1>3. Parsed = reader.received
  <2>1. \A s \in Seq(Frames) : s \o <<>> = s
    BY SMT
  <2> QED
    BY <1>2, <2>1 DEF Parsed
<1>4. Coming = stream.buffer \o stream.wire /\ Coming \in Seq(Pieces)
  <2>1. \A s \in Seq(Pieces) : <<>> \o s = s
    BY SMT
  <2> QED
    BY <1>1, <1>2, <2>1, ComingType DEF Coming
<1>5. /\ pre \in Seq(Pieces) /\ (b = <<>> => g = 0) /\ (b # <<>> => g = 1 /\ pre[1] = b)
  BY <1>2
<1>6. pieces = pre \o Coming
  <2>1. pre \in Seq(Pieces)
    BY <1>5
  <2> HIDE DEF pre
  <2>2. (pre \o stream.buffer) \o stream.wire = pre \o (stream.buffer \o stream.wire)
    <3>1. Regroups(pre, stream.buffer, stream.wire)
      BY <1>2, <2>1, Regrouped
    <3> QED
      BY <3>1 DEF Regroups
  <2> QED
    BY <1>4, <2>2
<1> HIDE DEF pre, pieces
<1>7. /\ pieces \in Seq(Pieces) /\ DOMAIN pieces = 1..Len(pieces) /\ Len(pieces) = g + Len(Coming) /\ Len(Coming) \in Nat
      /\ \A i \in 1..Len(pieces) : pieces[i] = IF i <= g THEN pre[i] ELSE Coming[i - g]
  <2> DEFINE s == Coming
  <2>1. s \in Seq(Pieces) /\ pre \in Seq(Pieces) /\ pieces = pre \o s
    BY <1>4, <1>5, <1>6
  <2> HIDE DEF s
  <2>2. /\ pieces \in Seq(Pieces) /\ Len(pieces) = Len(pre) + Len(s) /\ Len(s) \in Nat
        /\ \A i \in 1..Len(pieces) : pieces[i] = IF i <= Len(pre) THEN pre[i] ELSE s[i - Len(pre)]
    BY <2>1, ConcatProperties, LenProperties
  <2>3. DOMAIN pieces = 1..Len(pieces)
    BY <2>2
  <2> QED
    BY <2>2, <2>3 DEF s
<1>8. g \in {0, 1} /\ Len(pieces) \in Nat
  BY <1>5, <1>7
<1> HIDE DEF g
<1>9. \A i \in 1..Len(Coming) : IsChunk(Coming[i]) /\ Coming[i] \in Pieces
  <2> SUFFICES ASSUME NEW i \in 1..Len(Coming) PROVE IsChunk(Coming[i]) /\ Coming[i] \in Pieces
    OBVIOUS
  <2>1. IsChunk(Coming[i])
    BY <1>1 DEF Chained
  <2> QED
    BY <1>4, <2>1, ElementOfSeq
<1>10. \A s : Last(s) = LastOf(s)
  BY DEF Last, LastOf
<1>11. Due = IF b = <<>> THEN from ELSE NextByte(LastOf(b))
  BY <1>3 DEF Due
<1>12. due(g + 1) = Due
  <2>1. CASE b = <<>>
    BY <1>5, <1>11, <2>1
  <2>2. CASE b # <<>>
    <3>1. 1 \in 1..Len(pieces) /\ 1 <= g /\ pieces[1] = b /\ g + 1 = 2 /\ 2 - 1 = 1
      BY <1>5, <1>7, <2>2
    <3> QED
      BY <1>10, <1>11, <2>2, <3>1
  <2> QED
    BY <2>1, <2>2
<1>13. \A i \in 1..Len(Coming) : pieces[g + i] = Coming[i] /\ due(g + i + 1) = NextByte(LastOf(Coming[i]))
  <2> SUFFICES ASSUME NEW i \in 1..Len(Coming)
               PROVE  pieces[g + i] = Coming[i] /\ due(g + i + 1) = NextByte(LastOf(Coming[i]))
    OBVIOUS
  <2>1. g + i \in 1..Len(pieces) /\ ~(g + i <= g) /\ (g + i) - g = i /\ (g + i + 1) - 1 = g + i /\ g + i + 1 # 1
    BY <1>7, <1>8
  <2>2. pieces[g + i] = Coming[i]
    BY <1>7, <2>1
  <2> QED
    BY <1>10, <2>1, <2>2
<1>14. Coming = <<>> <=> Len(Coming) = 0
  BY <1>4, EmptySeq
<1>15. due(Len(pieces) + 1) = <<Len(sender.sent) + 1, 1>>
  <2>1. CASE Coming = <<>>
    <3>1. Len(pieces) + 1 = g + 1
      BY <1>7, <1>8, <1>14, <2>1
    <3> QED
      BY <1>1, <1>12, <2>1, <3>1 DEF Linked, End
  <2>2. CASE Coming # <<>>
    <3>1. Len(Coming) \in 1..Len(Coming) /\ Len(pieces) = g + Len(Coming)
      BY <1>7, <1>14, <2>2
    <3>2. due(Len(pieces) + 1) = NextByte(LastOf(Coming[Len(Coming)]))
      BY <1>13, <3>1
    <3> QED
      BY <1>1, <2>2, <3>2 DEF Chained, End, LastOf
  <2> QED
    BY <2>1, <2>2
<1>16. ASSUME NEW i \in DOMAIN pieces
       PROVE  /\ pieces[i] # <<>> /\ Head(pieces[i]) = due(i)
              /\ \A k \in 1..Len(pieces[i]) - 1 : pieces[i][k + 1] = NextByte(pieces[i][k])
  <2>1. CASE i <= g
    <3>1. i = 1 /\ b # <<>> /\ g = 1
      BY <1>5, <1>7, <1>8, <2>1
    <3>2. pieces[i] = b
      BY <1>5, <1>7, <2>1, <3>1
    <3>3. Head(b) = b[1] /\ b[1] = from
      BY <1>1, <1>2, <1>3, <3>1, HeadTailProperties DEF Pieces, Linked
    <3>4. \A k \in 1..Len(b) - 1 : b[k + 1] = NextByte(b[k])
      BY <1>1, BufferRuns DEF Linked
    <3> QED
      BY <3>1, <3>2, <3>3, <3>4
  <2>2. CASE ~(i <= g)
    <3> DEFINE j == i - g
               c == Coming[j]
    <3>1. j \in 1..Len(Coming) /\ g + j = i
      BY <1>7, <1>8, <2>2
    <3>2. pieces[i] = c /\ IsChunk(c) /\ c \in Pieces
      BY <1>9, <1>13, <3>1
    <3>3. \A k \in 1..Len(c) - 1 : c[k + 1] = NextByte(c[k])
      BY <1>1, <3>2, ChunkRuns
    <3>4. c # <<>> /\ Head(c) = c[1]
      BY <3>2, HeadTailProperties DEF IsChunk, Pieces
    <3>5. c[1] = due(i)
      <4>1. CASE j = 1
        <5>1. i = g + 1 /\ Coming # <<>> /\ c = Coming[1]
          BY <1>14, <3>1, <4>1
        <5> QED
          BY <1>1, <1>12, <5>1 DEF Linked
      <4>2. CASE j # 1
        <5>1. j - 1 \in 1..Len(Coming) /\ j - 1 < Len(Coming) /\ (j - 1) + 1 = j /\ g + (j - 1) + 1 = i
          BY <1>7, <1>8, <3>1, <4>2
        <5>2. c[1] = NextByte(LastOf(Coming[j - 1]))
          BY <1>1, <5>1 DEF Chained
        <5> QED
          BY <1>13, <5>1, <5>2
      <4> QED
        BY <4>1, <4>2
    <3> QED
      BY <3>2, <3>3, <3>4, <3>5
  <2> QED
    BY <2>1, <2>2
<1> QED
  BY <1>15, <1>16 DEF Unbroken, pieces, pre

\* Whatever the lengths, the chunk size and the number of frames: the messages that come out
\* are those that were sent, from the first on, once and numbered without a gap; while the
\* reader waits and nothing has raised, no whole frame is left in its buffer, and from there
\* to the last byte sent none is missing (chat.py:157-184, codec.py:140-179,
\* file_codec.py:189-241).
THEOREM FramesComeOutWhole == FramingSpec => []FramesWhole
<1>1. FrInv => FramesWhole
  <2> SUFFICES ASSUME FrInv PROVE FramesWhole
    OBVIOUS
  <2>1. reader.pc = "idle" /\ ~reader.raised => ~FrameThere
    BY DEF FrInv
  <2> QED
    BY <2>1, ReceivedIsPrefix, WaitingUnbroken DEF FramesWhole
<1> QED
  BY <1>1, FrInvInit, FrInvStep, PTL DEF FramingSpec
=============================================================================
