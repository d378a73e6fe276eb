--------------------------- MODULE MCLessonImport ---------------------------
(* Instances of LessonImport for TLC: dictation and comprehension cards of   *)
(* the kind "listening", of which one text is in several cards.              *)
EXTENDS LessonImport

CONSTANT tab1

MCOnePage == {tab1}
MCType == {"dictation", "comprehension"}
MCKey == {"k1", "k2"}
MCLevel == {"B1", "B2"}
MCLabel == {"t1", "t2"}

CardOf(t, k, l, topic) == [type |-> t, key |-> k, level |-> l, label |-> topic]
MCTwice == <<CardOf("dictation", "k1", "B1", "t1"), CardOf("comprehension", "k1", "B1", "t2")>>
MCApart == <<CardOf("dictation", "k2", "B1", "t1"), CardOf("dictation", "k1", "B2", "t1")>>
MCBatches == {MCTwice, MCApart}

Plain(t) == [type |-> t, key |-> "k1", level |-> Blank, label |-> Blank, tags |-> {}]
MCStart == {<<>>, <<Plain("comprehension")>>, <<Plain("dictation"), Plain("comprehension")>>}

\* At most one note type is not as it should be.
MCModels == {m \in [MCType -> Condition] : \E t \in MCType : m[t] = "usable"}
=============================================================================
