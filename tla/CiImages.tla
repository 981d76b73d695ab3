------------------------------- MODULE CiImages -------------------------------
(***************************************************************************)
(* scripts/list-ci-images.py: the images the Molecule scenarios can pull.  *)
(* An image is [form, registry, name, tag], the form of a plain name "ref" *)
(* (a digest, quotes or a template inside are others); a tree has          *)
(* group_vars and defaults, functions from variables to images, the        *)
(* overrides of its scenarios and the image lines [var, default] of its    *)
(* templates, a literal or partly templated one without a variable.        *)
(***************************************************************************)
EXTENDS Integers

CONSTANTS
    NoImage,
    ImageVarNames        \* the names that end in _image

DockerHub == {"", "docker.io"}

IsRef(ref) == ref.form = "ref"

Normalize(ref) ==
    [form     |-> ref.form,
     registry |-> IF ref.registry = "docker.io" THEN "" ELSE ref.registry,
     name     |-> ref.name,
     tag      |-> IF ref.tag = "" THEN "latest" ELSE ref.tag]

IsDockerHub(ref) == ref.registry \in DockerHub

Values(f) == {f[v] : v \in DOMAIN f \cap ImageVarNames}

\* Mutant of ImageVars: the overrides of the scenarios are not read.
ImageVarsOfRoles(tree) == Values(tree.group_vars) \cup Values(tree.defaults)

\* Every value of such a variable anywhere, whatever uses it.
ImageVars(tree) ==
    Values(tree.group_vars) \cup Values(tree.defaults)
    \cup UNION {Values(tree.scenarios[s].overrides) : s \in DOMAIN tree.scenarios}

ImageLines(tree) == {line.default : line \in tree.images} \ {NoImage}

CollectImages(tree) ==
    {Normalize(r) : r \in {i \in ImageVars(tree) \cup ImageLines(tree) : IsRef(i)}}

HubImages(tree) == {i \in CollectImages(tree) : IsDockerHub(i)}
==============================================================================
