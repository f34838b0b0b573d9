------------------------------ MODULE MCClient ------------------------------
(***************************************************************************)
(* Four modules that share nothing, checked side by side: a behaviour is of *)
(* one of them, while the others stay as they are.                         *)
(***************************************************************************)
EXTENDS Client, Decoders, Uploads, Jar

VARIABLE part

partsVars == <<clientVars, vars, uploadVars, jarVars, part>>

PartsInit ==
    /\ part \in {"client", "decoders", "uploads", "jar"}
    /\ ClientInit
    /\ part # "client" =>
        /\ jar = Absent
        /\ request = [origin |-> CHOOSE o \in Origins : TRUE, method |-> "GET", body |-> "empty",
                      auth |-> FALSE, cookie |-> NoCookie, referer |-> Absent]
    /\ Init
    /\ part # "decoders" => kind = "lines"
    /\ UploadInit
    /\ part # "uploads" => body.form = "bytes" /\ at = [f \in Files |-> 0]
    /\ JarInit
    /\ part # "jar" => jars = [j \in Jars |-> {}]

PartsNext ==
    /\ UNCHANGED part
    /\ \/ part = "client" /\ ClientNext /\ UNCHANGED <<vars, uploadVars, jarVars>>
       \/ part = "decoders" /\ Next /\ UNCHANGED <<clientVars, uploadVars, jarVars>>
       \/ part = "uploads" /\ UploadNext /\ UNCHANGED <<clientVars, vars, jarVars>>
       \/ part = "jar" /\ JarNext /\ UNCHANGED <<clientVars, vars, uploadVars>>

PartsSpec == PartsInit /\ [][PartsNext]_partsVars
=============================================================================
