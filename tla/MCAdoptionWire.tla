---------------------------- MODULE MCAdoptionWire ----------------------------
(* Bytes of two bits, one letter and two separators: texts of at most five  *)
(* bytes, at most two capabilities; grants at each limit and past it.       *)
EXTENDS AdoptionWire

MCNames == {<<0>>, <<0, 0>>}

\* 0:0, 0:00, 0:0@0
Does == <<0, 1, 0>>
Other == <<0, 1, 0, 0>>
DoesHere == <<0, 1, 0, 2, 0>>

\* those, other scopes, and what is no capability
MCNeeds == {Does, Other, DoesHere, <<0, 1, 0, 2, 0, 0>>, <<0, 0, 1, 0>>,
            <<0>>, <<0, 1, 0, 2>>, <<0, 1, 0, 1, 0>>, <<0, 1, 0, 2, 0, 2, 0>>, <<1, 0>>, <<0, 2, 0, 1, 0>>}

MCSignature == <<0>>

Grant(device, owner, relay, host, caps, version, issued, expires) ==
    [device_did |-> device, owner_did |-> owner,
     owner_genesis_pubkey |-> <<2>>, hub_endpoint_id |-> <<0>>,
     hub_relay |-> relay, hub_host |-> host, caps |-> caps,
     roster_version |-> version, issued_at |-> issued, expires_at |-> expires]

Plain == Grant(<<1>>, <<2>>, <<>>, <<>>, <<>>, 0, 1, 0)

MCGrants == {
    Plain,
    [Plain EXCEPT !.caps = <<Does, Other>>, !.roster_version = 3],
    [Plain EXCEPT !.caps = <<DoesHere>>],
    [Plain EXCEPT !.device_did = <<1, 1, 1, 1, 1>>, !.hub_relay = <<1>>, !.expires_at = 2],
    \* refused: texts too long or empty, too many capabilities, one that does
    \* not parse, a grant that expired before it was issued
    [Plain EXCEPT !.hub_host = <<1, 1, 1, 1, 1, 1>>],
    [Plain EXCEPT !.owner_did = <<>>],
    [Plain EXCEPT !.caps = <<Does, Does, Does, Does>>],
    [Plain EXCEPT !.caps = <<<<0, 1>>>>],
    [Plain EXCEPT !.expires_at = 1]}

\* Just the canonical bytes of Plain, just Plain signed, and room for the grant
\* with too many capabilities, were it written.
MCRooms == {18, 19, 40}
=============================================================================
