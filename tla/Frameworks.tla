------------------------------ MODULE Frameworks ------------------------------
(***************************************************************************)
(* The framework plugins (Web/backend/src/services/frameworks) and their   *)
(* order.                                                                  *)
(*                                                                         *)
(* A directory is a record: the marker files in it, the packages its       *)
(* manifests name (deps; dev for devDependencies), the scripts of its      *)
(* package.json, and whether the output of a build lies in it.  A plugin   *)
(* is an operator that gives, for a directory:                             *)
(* whether it detects it, whether it is a desktop application, the image   *)
(* and the tools of the build, the image of the preview, and the tool that *)
(* starts the preview with the way the application learns its port:        *)
(* "arg" and "env" (the PORT the container is given), "own" (a variable of *)
(* the plugin, which the container is not given), "random" (serve -l 0).   *)
(***************************************************************************)
EXTENDS Sequences

Nothing == [files |-> {}, deps |-> {}, dev |-> {}, scripts |-> {}, built |-> FALSE]

-----------------------------------------------------------------------------
(***************************************************************************)
(* Parts of the plugins.                                                   *)
(***************************************************************************)
Has(d, names) == d.files \cap names # {}
Uses(d, names) == "package.json" \in d.files /\ (d.deps \cup d.dev) \cap names # {}
Needs(d, name) == "package.json" \in d.files /\ name \in d.deps
Names(d, file, name) == file \in d.files /\ name \in d.deps
Scripted(d, scripts) == "package.json" \in d.files /\ d.scripts \cap scripts # {}

Start(tool, port) == [tool |-> tool, port |-> port]
BuiltIn(image, tools) == [image |-> image, tools |-> tools]
NodeBuild == BuiltIn("node", {"npm"})

\* A plugin with one image for both stages and no desktop applications.
Plain(id, detects, build, start) ==
    [id |-> id, detects |-> detects, gui |-> FALSE, build |-> build,
     preview |-> build.image, start |-> start]

JavaGui(d) == d.deps \cap {"swing", "awt", "javafx"} # {}
PythonGui(d) == d.deps \cap {"tkinter", "pyqt"} # {}
GoGui(d) == d.deps \cap {"fyne", "gioui"} # {}
Gradle(d) == Has(d, {"build.gradle"})
Composer(d, names) == "composer.json" \in d.files /\ (d.deps \cup d.dev) \cap names # {}
Csproj(d) == Has(d, {"csproj"})
Entry(d) == Has(d, {"main.js", "index.js"})
Lock(d) == Has(d, {"bun.lockb"})
Runner(d) == IF Lock(d) THEN "bun" ELSE "node"

\* A start script, else the main file or a known entry file, else the script.
ScriptOrFile(d, scripts) ==
    Start(IF ~Scripted(d, scripts) /\ Entry(d) THEN "node" ELSE "npm", "env")
Startable == {"start", "start:prod", "preview", "dev"}

-----------------------------------------------------------------------------
(***************************************************************************)
(* Java, Rust, .NET, Elixir, Ruby, PHP.                                    *)
(***************************************************************************)
Quarkus(d) ==
    [id |-> "quarkus",
     detects |-> \/ Names(d, "pom.xml", "quarkus") \/ Names(d, "build.gradle", "quarkus")
                 \/ Names(d, "application.properties", "quarkus"),
     gui |-> JavaGui(d),
     build |-> IF Gradle(d) THEN BuiltIn("gradle", {"gradle"}) ELSE BuiltIn("maven", {"mvn"}),
     preview |-> "jre",
     start |-> Start(IF d.built THEN "java" ELSE "echo", "own")]

Spring(d) ==
    LET build == IF Gradle(d) THEN BuiltIn("gradle", {"gradle"}) ELSE BuiltIn("maven", {"mvn"})
    IN [id |-> "spring", detects |-> Has(d, {"pom.xml", "build.gradle"}),
        gui |-> JavaGui(d), build |-> build, preview |-> build.image,
        start |-> Start(IF d.built THEN "java" ELSE "echo", "env")]

Rust(d) ==
    [id |-> "rust", detects |-> Has(d, {"Cargo.toml"}),
     gui |-> d.deps \cap {"egui", "iced"} # {},
     build |-> BuiltIn("rust", {"cargo"}), preview |-> "rust",
     start |-> Start(IF d.built THEN "binary" ELSE "echo", "env")]

\* Before the publication the project itself is run, which takes the SDK.
DotnetStart(d) == Start(IF d.built THEN "dotnet" ELSE "dotnet-sdk",
                        IF d.built THEN "own" ELSE "arg")

Blazor(d) ==
    [id |-> "blazor", detects |-> Csproj(d) /\ "blazor" \in d.deps, gui |-> FALSE,
     build |-> BuiltIn("dotnet-sdk", {"dotnet-sdk"}), preview |-> "aspnet",
     start |-> DotnetStart(d)]

Dotnet(d) ==
    [id |-> "dotnet",
     detects |-> Csproj(d) \/ Has(d, {"sln"}) \/ {"Program.cs", "appsettings.json"} \subseteq d.files,
     gui |-> Csproj(d) /\ ("winforms" \in d.deps \/ "aspnetcore" \notin d.deps),
     build |-> BuiltIn("dotnet-sdk", {"dotnet-sdk"}), preview |-> "aspnet",
     start |-> DotnetStart(d)]

Phoenix(d) == Plain("phoenix", Has(d, {"mix.exs"}), BuiltIn("elixir", {"mix"}), Start("mix", "env"))

Rails(d) ==
    Plain("rails", "Gemfile" \in d.files /\ ("rails" \in d.deps \/ Has(d, {"config/application.rb"})),
          BuiltIn("ruby", {"bundle"}), Start("bundle", "arg"))

Sinatra(d) ==
    Plain("sinatra", Names(d, "Gemfile", "sinatra"), BuiltIn("ruby", {"bundle"}), Start("bundle", "arg"))

SymfonyPackages == {"symfony/framework-bundle", "symfony/symfony"}

Symfony(d) ==
    [id |-> "symfony",
     detects |-> \/ Composer(d, SymfonyPackages)
                 \/ {"composer.json", "symfony.lock"} \subseteq d.files,
     gui |-> FALSE, build |-> BuiltIn("composer", {"composer"}), preview |-> "php",
     start |-> Start("php", "arg")]

Php(d) ==
    [id |-> "php",
     detects |-> \/ Has(d, {"artisan", "index.php", "public/index.php"})
                 \/ Composer(d, SymfonyPackages \cup {"laravel/framework", "slim/slim"}),
     gui |-> FALSE,
     build |-> BuiltIn("composer", IF Has(d, {"composer.json"}) THEN {"composer"} ELSE {}),
     preview |-> "php", start |-> Start("php", "arg")]

-----------------------------------------------------------------------------
(***************************************************************************)
(* Deno, Python, Bun.                                                      *)
(***************************************************************************)
DenoFile(d) == Has(d, {"deno.json"})

DenoFresh(d) ==
    Plain("deno-fresh", DenoFile(d) /\ (Has(d, {"fresh.gen.ts"}) \/ "fresh" \in d.deps),
          BuiltIn("deno", {"deno"}), Start("deno", "env"))

Deno(d) == Plain("deno", DenoFile(d), BuiltIn("deno", {"deno"}), Start("deno", "env"))

Requires(d, names) == Has(d, {"requirements.txt", "pyproject.toml"}) /\ d.deps \cap names # {}
PythonBuild == BuiltIn("python", {"python"})

FastApi(d) ==
    Plain("fastapi", Requires(d, {"fastapi", "uvicorn"}), PythonBuild, Start("sh", "arg"))

\* FastAPI is looked for in requirements.txt only.
Flask(d) ==
    [Plain("flask",
           /\ Requires(d, {"flask"})
           /\ ~(Has(d, {"requirements.txt"}) /\ d.deps \cap {"fastapi", "uvicorn"} # {}),
           PythonBuild, Start("sh", "arg"))
     EXCEPT !.gui = PythonGui(d)]

Django(d) ==
    [Plain("django", Has(d, {"requirements.txt", "manage.py", "pyproject.toml"}),
           PythonBuild, Start("sh", "arg"))
     EXCEPT !.gui = PythonGui(d)]

\* Without a lock of Bun npm may take over a failed installation; the image
\* is Bun's all the same.
Elysia(d) == Plain("elysia", Uses(d, {"elysia"}), BuiltIn("bun", {"bun"}), Start("bun", "env"))

KnownFrameworkDeps ==
    {"elysia", "hono", "express", "fastify", "koa", "next", "nuxt", "astro", "svelte",
     "@sveltejs/kit", "remix", "@remix-run/node", "solid-js", "@solidjs/start",
     "@builder.io/qwik", "gatsby", "react-scripts", "vue", "@vue/cli-service",
     "@angular/core", "@analogjs/platform", "@tanstack/react-start", "nitropack",
     "marko", "preact", "blitz", "@redwoodjs/core"}

BunNative(d) ==
    Plain("bun-native", Lock(d) /\ ~Uses(d, KnownFrameworkDeps),
          BuiltIn("bun", {"bun"}), Start("bun", "env"))

-----------------------------------------------------------------------------
(***************************************************************************)
(* Frameworks of Node.                                                     *)
(***************************************************************************)
\* A lock of Bun installs with bun and builds with npm, in Bun's image.
LockedBuild(d) == IF Lock(d) THEN BuiltIn("bun", {"bun", "npm"}) ELSE NodeBuild

TanstackStart(d) ==
    Plain("tanstack-start", Uses(d, {"@tanstack/react-start", "@tanstack/start"}),
          LockedBuild(d), Start("npm", "env"))

Analog(d) ==
    Plain("analog", Uses(d, {"@analogjs/platform", "@analogjs/router"}), NodeBuild,
          Start(IF d.built THEN "node" ELSE "npm", "env"))

Nextjs(d) == Plain("nextjs", Needs(d, "next"), NodeBuild, Start("npm", "env"))
Sveltekit(d) == Plain("sveltekit", Uses(d, {"@sveltejs/kit"}), NodeBuild, Start("npx", "arg"))

Nuxt(d) ==
    Plain("nuxt", Uses(d, {"nuxt"}), NodeBuild,
          Start(IF d.built THEN "node" ELSE "npm", "env"))

Astro(d) == Plain("astro", Uses(d, {"astro"}), NodeBuild, Start("npx", "arg"))
Remix(d) == Plain("remix", Uses(d, {"@remix-run/react"}), NodeBuild, Start("npm", "env"))

Blitz(d) ==
    Plain("blitz", Uses(d, {"blitz"}), NodeBuild,
          IF Scripted(d, {"start"}) THEN Start("npm", "env") ELSE Start("npx", "arg"))

Redwood(d) ==
    Plain("redwood", Uses(d, {"@redwoodjs/core"}),
          BuiltIn("node", IF Has(d, {"yarn.lock"}) THEN {"yarn"} ELSE {"npm", "npx"}),
          Start("yarn", "env"))

SolidStart(d) ==
    Plain("solidstart", Uses(d, {"@solidjs/start"}), NodeBuild,
          Start(IF ~Scripted(d, {"start"}) /\ d.built THEN "node" ELSE "npm", "env"))

Svelte(d) ==
    [Plain("svelte", Uses(d, {"svelte"}) /\ ~Uses(d, {"@sveltejs/kit"}), LockedBuild(d),
           IF Scripted(d, {"start"}) THEN Start("npm", "env")
           ELSE Start(IF Scripted(d, {"preview"}) THEN "npm" ELSE "npx", "arg"))
     EXCEPT !.preview = "node"]

Qwik(d) ==
    Plain("qwik", Uses(d, {"@builder.io/qwik", "@builder.io/qwik-city"}), NodeBuild,
          Start(IF ~Scripted(d, {"preview", "serve"}) /\ d.built THEN "node" ELSE "npm",
                "env"))

Nitro(d) ==
    Plain("nitro", Uses(d, {"nitropack"}) /\ ~Uses(d, {"nuxt"}), NodeBuild,
          Start(IF ~d.built /\ Scripted(d, {"preview"}) THEN "npm" ELSE "node", "env"))

Marko(d) ==
    Plain("marko", Uses(d, {"marko"}) \/ Has(d, {"index.marko"}), NodeBuild,
          ScriptOrFile(d, {"start"}))

Preact(d) ==
    Plain("preact", Uses(d, {"preact"}) /\ ~Uses(d, {"vite"}), NodeBuild, Start("node", "env"))

Gatsby(d) == Plain("gatsby", Needs(d, "gatsby"), NodeBuild, Start("npx", "arg"))
Cra(d) == Plain("cra", Needs(d, "react-scripts"), NodeBuild, Start("npx", "random"))

Vite(d) ==
    Plain("vite", Uses(d, {"vite"}) /\ ~Uses(d, {"@sveltejs/kit"}), NodeBuild, Start("npx", "arg"))

Angular(d) ==
    Plain("angular", Uses(d, {"@angular/core"}), BuiltIn("node", {"npm", "npx"}), Start("npx", "random"))

VueCli(d) == Plain("vuecli", Uses(d, {"@vue/cli-service"}), NodeBuild, Start("npx", "random"))

Hugo(d) ==
    [Plain("hugo", Has(d, {"config.toml", "hugo.toml"}), BuiltIn("hugo", {"hugo"}), Start("npx", "random"))
     EXCEPT !.preview = "node"]

Eleventy(d) ==
    Plain("eleventy", Uses(d, {"@11ty/eleventy"}), BuiltIn("node", {"npm", "npx"}), Start("npx", "random"))

-----------------------------------------------------------------------------
(***************************************************************************)
(* Go, servers of Node, and what remains.                                  *)
(***************************************************************************)
GoPlugin(d, id, package) ==
    [Plain(id, Names(d, "go.mod", package), BuiltIn("golang", {"go"}), Start("binary", "env"))
     EXCEPT !.gui = GoGui(d)]

Gin(d) == GoPlugin(d, "gin", "gin-gonic/gin")
Fiber(d) == GoPlugin(d, "fiber", "gofiber/fiber")
EchoGo(d) == GoPlugin(d, "echo-go", "labstack/echo")

Fastify(d) == Plain("fastify", Uses(d, {"fastify"}), NodeBuild, ScriptOrFile(d, Startable))

\* Mutant: the lock file of Bun changes the commands and not the image.
HonoOnNode(d) ==
    [Plain("hono", Uses(d, {"hono"}), NodeBuild,
           Start(IF Scripted(d, Startable) THEN (IF Lock(d) THEN "bun" ELSE "npm")
                 ELSE IF Has(d, {"index.ts"}) /\ ~Has(d, {"main.js"}) /\ ~Lock(d) THEN "npx"
                 ELSE Runner(d), "env"))
     EXCEPT !.build = IF Lock(d) THEN BuiltIn("bun", {"bun"}) ELSE NodeBuild]

Hono(d) ==
    Plain("hono", Uses(d, {"hono"}),
          IF Lock(d) THEN BuiltIn("bun", {"bun"}) ELSE NodeBuild,
          Start(IF Scripted(d, Startable) THEN (IF Lock(d) THEN "bun" ELSE "npm")
                ELSE IF Has(d, {"index.ts"}) /\ ~Has(d, {"main.js"}) /\ ~Lock(d) THEN "npx"
                ELSE Runner(d), "env"))

Koa(d) == Plain("koa", Uses(d, {"koa"}), NodeBuild, ScriptOrFile(d, {"start"}))

H3(d) ==
    Plain("h3", Uses(d, {"h3"}) /\ ~Uses(d, {"nitropack"}), NodeBuild,
          Start(IF Scripted(d, Startable) THEN "npm" ELSE "node", "env"))

Express(d) ==
    Plain("express",
          /\ Uses(d, {"express"})
          /\ ~Uses(d, {"next", "nuxt", "@remix-run/react", "@remix-run/node", "fastify",
                       "koa", "mongoose"}),
          NodeBuild, ScriptOrFile(d, Startable))

\* Of a client and a server the server is started; the root's scripts and
\* files serve when it has neither a start script nor an entry file.
Mern(d) ==
    Plain("mern", Has(d, {"package.json"}), NodeBuild,
          IF {"server/package.json", "client/package.json"} \subseteq d.files
             /\ Has(d, {"server/start", "server/index.js"})
          THEN Start(IF Has(d, {"server/start"}) THEN "npm" ELSE "node", "env")
          ELSE ScriptOrFile(d, {"start"}))

Indicators == {"package.json", "requirements.txt", "pyproject.toml", "Cargo.toml", "pom.xml",
               "build.gradle", "manage.py", "go.mod", "Gemfile", "composer.json"}

Static(d) ==
    Plain("static", Has(d, {"index.html"}) /\ ~Has(d, Indicators), BuiltIn("node", {}),
          Start("npx", "arg"))

Generic == Plain("generic", TRUE, BuiltIn("alpine", {}), Start("echo", "env"))

-----------------------------------------------------------------------------
(***************************************************************************)
(* The plugins in the order the detector tries them.                       *)
(***************************************************************************)
InOrder(first, second, d) ==
    <<first, second, Rust(d), Blazor(d), Dotnet(d), Phoenix(d), Rails(d), Sinatra(d),
      Symfony(d), Php(d), DenoFresh(d), Deno(d), FastApi(d), Flask(d), Django(d),
      Elysia(d), BunNative(d), TanstackStart(d), Analog(d),
      Nextjs(d), Sveltekit(d), Nuxt(d), Astro(d), Remix(d), Blitz(d), Redwood(d), SolidStart(d),
      Svelte(d), Qwik(d), Nitro(d), Marko(d), Preact(d), Gatsby(d), Cra(d), Vite(d), Angular(d),
      VueCli(d), Hugo(d), Eleventy(d), Gin(d), Fiber(d), EchoGo(d), Fastify(d), Hono(d), Koa(d),
      H3(d), Express(d), Mern(d), Static(d)>>

\* Mutant: the broader plugin is asked first.
PluginsSpringFirst(d) == InOrder(Spring(d), Quarkus(d), d)

\* "Plugin execution order is CRITICAL."
Plugins(d) == InOrder(Quarkus(d), Spring(d), d)

\* The packages some plugin looks for in a manifest.
PluginPackages ==
    KnownFrameworkDeps \cup SymfonyPackages \cup
    {"quarkus", "blazor", "rails", "sinatra", "laravel/framework", "slim/slim", "fresh",
     "fastapi", "uvicorn", "flask", "@tanstack/start", "@analogjs/router", "@remix-run/react",
     "@builder.io/qwik-city", "vite", "@11ty/eleventy", "gin-gonic/gin", "gofiber/fiber",
     "labstack/echo", "h3", "mongoose"}
=============================================================================
