----------------------------- MODULE MCBaichuan -----------------------------
(***************************************************************************)
(* An instance of the native client.  The streams of its camera begin in   *)
(* the middle of a group, have an information block and sound, change      *)
(* their codec during or after the opening, or break off in a bad record.  *)
(***************************************************************************)
EXTENDS Baichuan

LOCAL INSTANCE SequencesExt

LOCAL Other(kind) == [kind |-> kind, key |-> FALSE, codec |-> "h264"]
LOCAL Key(codec) == [kind |-> "video", key |-> TRUE, codec |-> codec]
LOCAL Delta == Other("video")

LOCAL Pieces(records) ==
  FlattenSeq([i \in 1..Len(records) |->
    [part \in 1..Size(records[i].kind) |-> [of |-> records[i], part |-> part]]])

MCStreams ==
  {Pieces(records) : records \in
    {<<Other("noise"), Delta, Key("h264"), Delta, Delta>>,
     <<Other("information"), Key("h264"), Other("audio"), Delta, Delta>>,
     <<Key("h264"), Key("hevc"), Delta>>,
     <<Key("h264"), Delta, Other("audio"), Other("information"), Key("hevc")>>,
     <<Key("h264"), Delta, Other("bad"), Delta>>}}
=============================================================================
