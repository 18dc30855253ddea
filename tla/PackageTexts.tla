---------------------------- MODULE PackageTexts ----------------------------
(***************************************************************************)
(* The texts of a new package: init/InitialData.cc.  A text is the         *)
(* sequence of its placeholders, <<"hole", ...>>, and of what was put in   *)
(* their place, <<"value", ...>>; what stands between them is left out,    *)
(* and a text without any is named.                                        *)
(*                                                                         *)
(* Options are InitOptions: name, description, license, version, category. *)
(***************************************************************************)
EXTENDS PackageName

Hole(key) == <<"hole", key>>
Holes(keys) == [i \in DOMAIN keys |-> Hole(keys[i])]

RegexReplace(text, key, value) ==
    [i \in DOMAIN text |-> IF text[i] = Hole(key) THEN <<"value", value>> ELSE text[i]]

Fixed(name) == <<<<"text", name>>>>

GenerateGitKeep == Fixed("git_keep")
GenerateGitIgnore == Fixed("git_ignore")
GenerateDockerIgnore == Fixed("docker_ignore")
GenerateCodeOfConduct == Fixed("code_of_conduct")
GenerateDefaultLibrarySource == Fixed("lib")
GenerateDefaultMainSource == Fixed("main")
-----------------------------------------------------------------------------
GenerateSecurityPolicyReplacingFirst(name) ==
    LET nice == BeutifyPart(PackageNamePart(name))
        team == Holes(<<"project_name_nice", "project_name_nice">>)
        advisory == Holes(<<"gh_username", "project_name">>)
        closing == Holes(<<"project_name_nice", "project_name_nice", "project_name_nice">>)
        report == RegexReplace(RegexReplace(team, "project_name_nice", nice),
                               "project_name", PackageNamePart(name))
        online == IF OnGithub(name)
                  THEN RegexReplace(report \o advisory, "gh_username", GithubUsername(name))
                  ELSE report
    IN  RegexReplace(online \o closing, "project_name_nice", nice)

\* The user's name is put in before the rest of the text is there.
GenerateSecurityPolicy(name) ==
    LET report == Holes(<<"project_name_nice", "project_name_nice">>)
        advisory == Holes(<<"gh_username", "project_name">>)
        closing == Holes(<<"project_name_nice", "project_name_nice", "project_name_nice">>)
        online == IF OnGithub(name)
                  THEN RegexReplace(report \o advisory, "gh_username", GithubUsername(name))
                  ELSE report
        content == RegexReplace(online \o closing, "project_name_nice",
                                BeutifyPart(PackageNamePart(name)))
    IN  RegexReplace(content, "project_name", PackageNamePart(name))

\* The instructions to install: a link where there is one to give.
Installation(name, category) ==
    IF OnGithub(name) THEN Holes(<<"gh_username", "project_name">>)
    ELSE Fixed(IF category = "std" THEN "installed by default" ELSE "to be written")

GenerateReadme(options) ==
    LET name == options.name
        opening == Holes(<<"project_name_nice", "project_escaped_spdx_license",
                           "project_category", "project_description",
                           "project_name_nice", "project_name">>)
                     \o Installation(name, options.category)
        online == IF OnGithub(name)
                  THEN RegexReplace(opening, "gh_username", GithubUsername(name))
                  ELSE opening
        value == ("project_name" :> PackageNamePart(name)) @@
                 ("project_name_nice" :> BeutifyPart(PackageNamePart(name))) @@
                 ("project_escaped_spdx_license" :> ShieldsIOEscapeContent(options.license)) @@
                 ("project_spdx_license" :> options.license) @@
                 ("project_description" :> options.description) @@
                 ("project_category" :> options.category)
    IN  FoldLeft(LAMBDA text, key : RegexReplace(text, key, value[key]),
                 online \o Holes(<<"project_spdx_license">>),
                 <<"project_name", "project_name_nice", "project_escaped_spdx_license",
                   "project_spdx_license", "project_description", "project_category">>)

GenerateContributingPolicy(options) ==
    RegexReplace(Holes(<<"project_name_nice", "project_name_nice">>),
                 "project_name_nice", BeutifyPart(PackageNamePart(options.name)))

GenerateCMakeListsTxt(name) ==
    RegexReplace(Holes(<<"project_name">>), "project_name", PackageNamePart(name))

\* Without a text from the service the file is empty.
GenerateLicense(license) == { Fixed(text) : text \in GetSPDXLicenseText(license) }
-----------------------------------------------------------------------------
DefaultSource(category) ==
    IF category = "exe" THEN <<"src/main.nit", GenerateDefaultMainSource>>
    ELSE <<"src/lib.nit", GenerateDefaultLibrarySource>>

\* InitPackageDirectoryStructure: the files in their order, each with its text,
\* given that of the licence and of the manifest.
PackageFiles(options, license, manifest) ==
    << <<"docs/.gitkeep", GenerateGitKeep>>,
       DefaultSource(options.category),
       <<"README.md", GenerateReadme(options)>>,
       <<"LICENSE", license>>,
       <<"CODE_OF_CONDUCT.md", GenerateCodeOfConduct>>,
       <<"CONTRIBUTING.md", GenerateContributingPolicy(options)>>,
       <<"SECURITY.md", GenerateSecurityPolicy(options.name)>>,
       <<".gitignore", GenerateGitIgnore>>,
       <<".dockerignore", GenerateDockerIgnore>>,
       <<"CMakeLists.txt", GenerateCMakeListsTxt(options.name)>>,
       <<"no3.json", manifest>> >>
=============================================================================
