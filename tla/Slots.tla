------------------------------- MODULE Slots -------------------------------
(* The state of one machine of several that have nothing to do with each   *)
(* other: which one a behaviour is of, and its variables, one to a slot.   *)
(* The slots that the machine does not need stay "off".                    *)
VARIABLES focus, s1, s2, s3, s4, s5, s6, s7, s8,
          s9, s10, s11, s12, s13, s14, s15, s16

slots == <<focus, s1, s2, s3, s4, s5, s6, s7, s8,
           s9, s10, s11, s12, s13, s14, s15, s16>>

\* The slots from a number on, at the start and in a step.
From16 == s16 = "off"
From15 == s15 = "off" /\ From16
From14 == s14 = "off" /\ From15
From13 == s13 = "off" /\ From14
From12 == s12 = "off" /\ From13
From11 == s11 = "off" /\ From12
From10 == s10 = "off" /\ From11
From9 == s9 = "off" /\ From10
From8 == s8 = "off" /\ From9
From7 == s7 = "off" /\ From8
From6 == s6 = "off" /\ From7
From5 == s5 = "off" /\ From6

Keep16 == UNCHANGED s16
Keep15 == UNCHANGED s15 /\ Keep16
Keep14 == UNCHANGED s14 /\ Keep15
Keep13 == UNCHANGED s13 /\ Keep14
Keep12 == UNCHANGED s12 /\ Keep13
Keep11 == UNCHANGED s11 /\ Keep12
Keep10 == UNCHANGED s10 /\ Keep11
Keep9 == UNCHANGED s9 /\ Keep10
Keep8 == UNCHANGED s8 /\ Keep9
Keep7 == UNCHANGED s7 /\ Keep8
Keep6 == UNCHANGED s6 /\ Keep7
Keep5 == UNCHANGED s5 /\ Keep6

=============================================================================
