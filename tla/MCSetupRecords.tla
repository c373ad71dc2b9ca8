---------------------------- MODULE MCSetupRecords ----------------------------
(* Verifiers of two bytes, two failures to lock, names left as strings and  *)
(* put as blobs, an image with no code and one with a record too short.     *)
EXTENDS SetupRecords, TLC

MCValues == {<<>>, <<0>>, <<1>>, <<2>>, <<7>>, <<8>>, <<3, 1>>, <<3, 2>>, <<3, 1, 1>>}
MCNames == {<<7>>, <<8>>}
MCWorn == {<<>>, <<3, 1, 1>>}

Blob(v) == [blob |-> v, str |-> None]
Str(v) == [blob |-> None, str |-> AsString(v)]

Image(verifier, name) == (VerifierKey :> verifier) @@ (FailuresKey :> Nothing) @@ (NameKey :> name)

MCImages == {
    Image(Blob(<<3, 1>>), Str(<<7>>)), Image(Blob(<<3, 2>>), Nothing),
    Image(Nothing, Str(<<8>>)), Image(Blob(<<1>>), Str(<<7>>))}

MCBuilds == {[nvs_encryption |-> n, flash_encryption |-> f, allow_insecure_dev |-> i] :
                n \in {TRUE}, f \in BOOLEAN, i \in BOOLEAN}
=============================================================================
