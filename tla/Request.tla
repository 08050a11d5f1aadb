------------------------------- MODULE Request -------------------------------
(***************************************************************************)
(* execute_http of http.rs up to the send, and body.rs: what the fields of *)
(* an HttpRequestSpec must resolve to for a request to be made of them.    *)
(*                                                                         *)
(* What a request says is left out; what is kept is whether it can be      *)
(* made, from which of the bodies, and whether it can be cloned.           *)
(***************************************************************************)
EXTENDS Context

CONSTANTS
    AbsoluteUrls,   \* the strings that start with http:// or https://
    Malformed,      \* the strings that reqwest refuses in a header or as a URL
    HexStrs,        \* the strings that decode_hex accepts
    DurationOf      \* the strings that parse_duration accepts |-> their time

ASSUME RequestAssumption ==
    /\ AbsoluteUrls \subseteq Strs /\ Malformed \subseteq Strs /\ HexStrs \subseteq Strs
    /\ DurationOf \in [DOMAIN DurationOf -> Nat]

\* BodyValue; the objects in an object hold no more objects (bound).
Flat == [tag : {"String", "Interpolation", "Bytes"}, text : Strs]
        \cup [tag : {"Part"}, filename : Strs \cup {None}, hex : BOOLEAN, text : Strs]
Member(values) == [key : Strs, value : values]
BodyValues == Flat \cup [tag : {"Object"}, pairs : Seq(Member(Flat))]
Object == Seq(Member(BodyValues))

Pairs == Seq([name : Strs, value : Strs])

\* HttpRequestSpec, without what is passed on as it is.
RequestSpecs ==
    [path : Strs, timeout : Strs \cup {None}, user_agent : Strs \cup {None},
     headers : Pairs, cookies : Pairs, queries : Pairs,
     json : Object \cup {None}, data : Object \cup {None}, raw : Strs \cup {None},
     multipart : Object \cup {None}, hex : Strs \cup {None}]

-----------------------------------------------------------------------------
(* Pieces of a request.  `v` are the variables of the context.             *)
\* resolve_scalar
Resolves(name, v) == v[name].tag # "list"

\* join_url: a path that is relative in the script stays so.
UrlBuilds(path, v) ==
    /\ Interpolates(path, v)
    /\ IF path \in AbsoluteUrls
       THEN Interpolate(path, v) \notin Malformed
       ELSE Interpolate(path, v) \notin AbsoluteUrls

HeaderBuilds(s, v) == Interpolates(s, v) /\ Interpolate(s, v) \notin Malformed
HexBuilds(s, v) == Interpolates(s, v) /\ Interpolate(s, v) \in HexStrs

\* body_value_to_json and render_body_value_string: binary content is replaced,
\* its templates are not looked at.
FlatTextBuilds(value, v) ==
    CASE value.tag = "String" -> Interpolates(value.text, v)
      [] value.tag = "Interpolation" -> Resolves(value.text, v)
      [] value.tag \in {"Bytes", "Part"} -> TRUE

TextBuilds(value, v) ==
    IF value.tag = "Object"
    THEN \A k \in DOMAIN value.pairs : /\ Interpolates(value.pairs[k].key, v)
                                       /\ FlatTextBuilds(value.pairs[k].value, v)
    ELSE FlatTextBuilds(value, v)

\* Fault: the name of the file is not looked at.
PartBuildsUnnamed(part, v) ==
    IF part.hex THEN HexBuilds(part.text, v) ELSE Interpolates(part.text, v)

\* part_bytes
PartBuilds(part, v) ==
    /\ part.filename # None => Interpolates(part.filename, v)
    /\ IF part.hex THEN HexBuilds(part.text, v) ELSE Interpolates(part.text, v)

\* A value of object_to_multipart: no objects inside.
MultipartBuilds(value, v) ==
    CASE value.tag = "String" -> Interpolates(value.text, v)
      [] value.tag = "Interpolation" -> Resolves(value.text, v)
      [] value.tag = "Bytes" -> HexBuilds(value.text, v)
      [] value.tag = "Part" -> PartBuilds(value, v)
      [] value.tag = "Object" -> FALSE

\* object_to_json and object_to_form.
ObjectBuilds(object, v) ==
    \A k \in DOMAIN object : Interpolates(object[k].key, v) /\ TextBuilds(object[k].value, v)

FormBuilds(object, v) ==
    \A k \in DOMAIN object :
        Interpolates(object[k].key, v) /\ MultipartBuilds(object[k].value, v)

-----------------------------------------------------------------------------
\* Fault: multipart goes before data and raw.
BodyOfMultipartEarly(spec) ==
    CASE spec.json # None -> "json"
      [] spec.json = None /\ spec.multipart # None -> "multipart"
      [] spec.json = None /\ spec.multipart = None /\ spec.data # None -> "data"
      [] OTHER -> IF spec.raw # None THEN "raw"
                  ELSE IF spec.hex # None THEN "hex" ELSE "none"

\* apply_body: the first of these that the spec has.
BodyOf(spec) ==
    IF spec.json # None THEN "json"
    ELSE IF spec.data # None THEN "data"
    ELSE IF spec.raw # None THEN "raw"
    ELSE IF spec.multipart # None THEN "multipart"
    ELSE IF spec.hex # None THEN "hex"
    ELSE "none"

BodyBuilds(spec, v) ==
    CASE BodyOf(spec) = "json" -> ObjectBuilds(spec.json, v)
      [] BodyOf(spec) = "data" -> ObjectBuilds(spec.data, v)
      [] BodyOf(spec) = "raw" -> Interpolates(spec.raw, v)
      [] BodyOf(spec) = "multipart" -> FormBuilds(spec.multipart, v)
      [] BodyOf(spec) = "hex" -> HexBuilds(spec.hex, v)
      [] BodyOf(spec) = "none" -> TRUE

\* execute_http reaches the wire.
Builds(spec, v) ==
    /\ UrlBuilds(spec.path, v)
    /\ spec.timeout # None => spec.timeout \in DOMAIN DurationOf
    /\ spec.user_agent # None => HeaderBuilds(spec.user_agent, v)
    /\ \A k \in DOMAIN spec.headers : /\ HeaderBuilds(spec.headers[k].name, v)
                                      /\ Interpolate(spec.headers[k].name, v) # Empty
                                      /\ HeaderBuilds(spec.headers[k].value, v)
    /\ \A k \in DOMAIN spec.cookies : /\ HeaderBuilds(spec.cookies[k].name, v)
                                      /\ HeaderBuilds(spec.cookies[k].value, v)
    /\ \A k \in DOMAIN spec.queries : /\ Interpolates(spec.queries[k].name, v)
                                      /\ Interpolates(spec.queries[k].value, v)
    /\ BodyBuilds(spec, v)

\* reqwest turns a form with parts into a stream, which cannot be cloned, and
\* one without into an empty body.
Cloneable(spec) == BodyOf(spec) = "multipart" => spec.multipart = << >>
=============================================================================
