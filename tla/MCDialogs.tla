----------------------------- MODULE MCDialogs ------------------------------
(***************************************************************************)
(* Names of up to four bytes, with the bytes at the bounds of the UTF-8    *)
(* tables: any first byte with any that may or may not follow it, those of *)
(* three and four that begin a longer sequence; and names with a "\x" of   *)
(* their own.                                                              *)
(***************************************************************************)
EXTENDS Dialogs

MCBytes == {10, 65, 127, 128, 143, 144, 159, 160, 191, 193, 194, 223}
Leads3  == {224, 225, 237, 239}
Leads4  == {240, 243, 244, 245, 248}

MCSamples ==
    {<<a>> : a \in MCBytes \cup Leads3 \cup Leads4}
    \cup {<<a, b>> : a \in MCBytes \cup Leads3 \cup Leads4, b \in MCBytes}
    \cup {<<a, b, c>> : a \in Leads3, b \in MCBytes, c \in {65, 128}}
    \cup {<<a, b, 128, c>> : a \in Leads4, b \in MCBytes, c \in {65, 191}}
    \cup {<<65, 66, 67, 68>>, <<65, 195, 169, 66>>}
    \cup {<<92, 120, 52, 200>>, <<92, 120, 52, 49>>, <<200, 92, 120, 65>>, <<65, 200, 66, 10>>}

MCReadings ==
    {{}, {"cross"}, {"up"}, {"down"}, {"circle"}, {"triangle"}, {"options"}, {"touch"},
     {"cross", "circle"}, {"up", "cross"}}
=============================================================================
